---- MODULE Spec2Model ----
(***************************************************************************)
(* The DRAIN provider payment core: DrainService (voucher validation and   *)
(* commit) over VoucherStorage (the ledger), driven by the                 *)
(* POST /v1/chat/completions handler of the provider servers.              *)
(*                                                                         *)
(* Channel records are JavaScript objects: validateVoucher hands out the   *)
(* stored object itself when the channel is in the ledger and a fresh      *)
(* object otherwise, and storeVoucher mutates the object it is given in    *)
(* place.  The model keeps a heap of channel objects so that this aliasing *)
(* is what the code does.                                                  *)
(*                                                                         *)
(* A handler runs until its next await.  The awaits inside validateVoucher *)
(* (the contract read before the checks, the signature check after them)   *)
(* touch no shared state, so each validateVoucher call is one step placed  *)
(* at its synchronous block of checks; the await of the backend call and   *)
(* the resumption of the handler after the post-call validation are        *)
(* separate steps that other requests interleave with.                     *)
(***************************************************************************)
EXTENDS Integers, Sequences, FiniteSets, TLC

----------------------------------------------------------------------------
(* Bounds of the model *)

MaxAmount == 2
MaxNonce == 2
MaxCost == 1
MaxVouchers == 3
MaxTime == 3

Requests == {"r1", "r2"}

----------------------------------------------------------------------------
(* Deployment: config.ts, constants.ts *)

ZeroAddress == "0x0000000000000000000000000000000000000000"
ProviderAddress == "0xPrOvIdEr"
ConfigChainId == 137
OtherChainId == 80002
DRAIN_ADDRESSES == (137 :> "0x1C19" @@ 80002 :> "0x61f1")
ContractAddress == DRAIN_ADDRESSES[ConfigChainId]
EIP712_DOMAIN == [name |-> "DrainChannel", version |-> "1"]

(* String.prototype.toLowerCase on the addresses that occur *)
ToLowerCase(a) ==
    CASE a = "0xPrOvIdEr" -> "0xprovider"
      [] a = "0xOtHeR" -> "0xother"
      [] OTHER -> a

----------------------------------------------------------------------------
(* The settlement contract as the provider reads it: getChannel(channelId) *)

ChannelIds == {"c1", "c2", "cW", "cX"}

OnChain ==
    [c \in ChannelIds |->
       CASE c = "c1" -> [consumer |-> "0xalice", provider |-> "0xPrOvIdEr",
                         deposit |-> MaxAmount - 1, claimed |-> 0, expiry |-> 2]
         [] c = "c2" -> [consumer |-> "0xbob", provider |-> "0xprovider",
                         deposit |-> MaxAmount, claimed |-> 0, expiry |-> 3]
         [] c = "cW" -> [consumer |-> "0xalice", provider |-> "0xOtHeR",
                         deposit |-> MaxAmount - 1, claimed |-> 0, expiry |-> 2]
         [] c = "cX" -> [consumer |-> ZeroAddress, provider |-> ZeroAddress,
                         deposit |-> 0, claimed |-> 0, expiry |-> 0]]

GetChannel(channelId) == OnChain[channelId]

----------------------------------------------------------------------------
(* Voucher wire format and the typed-data signature *)

(* BigInt(string): the header and the ledger file carry decimal strings;    *)
(* anything else throws.  The integers that occur are amounts, nonces and   *)
(* totals charged.                                                          *)
Decimals == 0 .. (MaxAmount + MaxNonce + MaxVouchers * MaxCost)
DecimalString == [n \in Decimals |-> ToString(n)]
IsDecimal(s) == \E n \in Decimals : DecimalString[n] = s
BigInt(s) == CHOOSE n \in Decimals : DecimalString[n] = s
BigIntError(s) == [isError |-> TRUE, message |-> "Cannot convert to a BigInt"]
ReadContractError == [isError |-> TRUE, message |-> "HTTP request failed"]

(* the domain validateVoucher verifies under *)
Domain ==
    [name |-> EIP712_DOMAIN.name, version |-> EIP712_DOMAIN.version,
     chainId |-> ConfigChainId, verifyingContract |-> ContractAddress]

(* A signature is what a key holder produced: the signer, the domain and   *)
(* the Voucher struct that were hashed.  Recovery under another domain or  *)
(* message yields an address nobody holds.                                 *)
Sign(signer, domain, message) ==
    [signer |-> signer, domain |-> domain, message |-> message]

(* faulty variant: recovery that does not bind the signature to the domain *)
RecoverTypedDataAddress_IgnoresDomain(domain, message, signature) ==
    IF signature.message = message
    THEN signature.signer
    ELSE "0xunrelated"

RecoverTypedDataAddress(domain, message, signature) ==
    IF signature.domain = domain /\ signature.message = message
    THEN signature.signer
    ELSE "0xunrelated"

VerifyTypedData(address, domain, message, signature) ==
    RecoverTypedDataAddress(domain, message, signature) = address

(* inputs: the vouchers a client may send *)
AmountStrings == {ToString(n) : n \in 0 .. MaxAmount}
NonceStrings == {ToString(n) : n \in 1 .. MaxNonce}

MessageOf(channelId, amount, nonce) ==
    [channelId |-> channelId,
     amount |-> IF IsDecimal(amount) THEN BigInt(amount) ELSE 0,
     nonce |-> IF IsDecimal(nonce) THEN BigInt(nonce) ELSE 0]

Header(channelId, amount, nonce, signature) ==
    [channelId |-> channelId, amount |-> amount, nonce |-> nonce,
     signature |-> signature]

(* signed by the channel's consumer over the header's own fields *)
WellSigned(c, a, n) ==
    Header(c, a, n, Sign(GetChannel(c).consumer, Domain, MessageOf(c, a, n)))

(* signatures that are not the consumer's over these fields and this domain *)
ForgedSignatures(c, a, n) ==
    LET m == MessageOf(c, a, n)
        consumer == GetChannel(c).consumer
    IN  { Sign("0xmallory", Domain, m),
          Sign(consumer, [Domain EXCEPT !.chainId = OtherChainId], m),
          Sign(consumer, [Domain EXCEPT !.verifyingContract = DRAIN_ADDRESSES[OtherChainId]], m),
          Sign(consumer, Domain, [m EXCEPT !.channelId = "c2"]),
          Sign(consumer, Domain, [m EXCEPT !.amount = @ + 1]),
          Sign(consumer, Domain, [m EXCEPT !.nonce = @ + 1]) }

HonestVouchers ==
    {WellSigned("c1", a, n) : <<a, n>> \in AmountStrings \X NonceStrings}

(* forgeries are tried on c1 at the amount of its deposit, at every nonce *)
ForgedVouchers ==
    UNION { {Header("c1", ToString(GetChannel("c1").deposit), n, s) :
               s \in ForgedSignatures("c1", ToString(GetChannel("c1").deposit), n)} :
            n \in NonceStrings }

(* a channel of another provider and a channel that does not exist *)
ForeignVouchers == {WellSigned("cW", "1", "1"), WellSigned("cX", "1", "1")}

(* amount or nonce that is not a decimal string *)
MalformedVouchers == {WellSigned("c1", "abc", "1"), WellSigned("c1", "1", "abc")}

VoucherHeaders ==
    HonestVouchers \cup ForgedVouchers \cup ForeignVouchers \cup MalformedVouchers

(* The X-DRAIN-Voucher header as text: JSON.parse throws on it, or yields   *)
(* an object, a set of fields with JSON values                             *)
JsonString(x) == [type |-> "string", value |-> x]
JsonNumber(n) == [type |-> "number", value |-> n]
Undefined == [type |-> "undefined"]
NotJson == [json |-> FALSE]
Json(object) == [json |-> TRUE, object |-> object]

(* JSON.stringify of a voucher header as a client builds it *)
Stringify(voucher) ==
    Json([channelId |-> JsonString(voucher.channelId),
          amount |-> JsonString(voucher.amount),
          nonce |-> JsonString(voucher.nonce),
          signature |-> [type |-> "hex", value |-> voucher.signature]])

(* parsed.field *)
Field(parsed, name) == IF name \in DOMAIN parsed THEN parsed[name] ELSE Undefined

(* !x *)
Falsy(x) ==
    \/ x.type = "undefined"
    \/ x.type = "string" /\ x.value = ""
    \/ x.type = "number" /\ x.value = 0

(* a value as BigInt() and the typed-data message take it: BigInt(1) and   *)
(* BigInt("1") are the same integer                                        *)
Plain(x) == IF x.type = "number" THEN ToString(x.value) ELSE x.value

Null == [null |-> TRUE]

(* parseVoucherHeader *)
ParseVoucherHeader(header) ==
    IF ~header.json THEN Null
    ELSE LET parsed == header.object
         IN  IF \/ Falsy(Field(parsed, "channelId"))
                \/ Falsy(Field(parsed, "amount"))
                \/ Falsy(Field(parsed, "nonce"))
                \/ Falsy(Field(parsed, "signature"))
             THEN Null
             ELSE Header(Plain(parsed.channelId), Plain(parsed.amount),
                         Plain(parsed.nonce), Plain(parsed.signature))

(* headers a client may send: well-formed ones, and ones with a field      *)
(* missing, empty or zero, with a field too many, with an amount or nonce  *)
(* that is no integer, and text that is not JSON                           *)
GoodHeaders == {Stringify(v) : v \in HonestVouchers}

BadHeaders ==
    LET good == Stringify(WellSigned("c1", "1", "1")).object
    IN  { NotJson,
          Json([channelId |-> good.channelId, amount |-> good.amount,
                nonce |-> good.nonce]),
          Json([good EXCEPT !.amount = JsonString("")]),
          Json([good EXCEPT !.nonce = JsonNumber(0)]),
          Json([channelId |-> good.channelId, amount |-> good.amount,
                nonce |-> good.nonce, signature |-> good.signature,
                memo |-> JsonString("x")]),
          Json([good EXCEPT !.amount = JsonString("abc")]),
          Json([good EXCEPT !.nonce = JsonString("abc")]) }

Headers == GoodHeaders \cup BadHeaders

Costs == 0 .. MaxCost

(* <<voucher, requiredAmount, whether the contract read succeeds>>: the     *)
(* required amount and the read matter only where the voucher gets that far *)
ValidateInputs ==
    ((HonestVouchers \cup ForgedVouchers) \X Costs \X {TRUE})
    \cup ((ForeignVouchers \cup MalformedVouchers) \X {0} \X {TRUE})
    \cup ({WellSigned("c1", "1", "1")} \X {0} \X {FALSE})

----------------------------------------------------------------------------
(* State *)

VARIABLES
    vouchers,   \* storage.data.vouchers: the list of StoredVoucher records
    channels,   \* storage.data.channels: channelId -> channel object
    heap,       \* the ChannelState objects, by identity
    reqs,       \* the requests in flight: handler position and locals
    disk,       \* the persisted document written by save()
    totalEarned,  \* storage.data.totalEarned: a decimal string
    response,   \* the most recent response sent: "ok" or its error code
    parse,      \* the most recent parseVoucherHeader call: header and result
    now,        \* the clock: Date.now()
    jobs,       \* the claimPayments / claimExpiring runs in progress
    timers,     \* the interval timers of the event loop
    autoClaimInterval,  \* DrainService.autoClaimInterval: a timer or null
    returned    \* what the most recent claimPayments / claimExpiring run
                \* to end returned, beside what the chain had answered it

vars == <<vouchers, channels, heap, reqs, disk, totalEarned, response, parse,
          now, jobs, timers, autoClaimInterval, returned>>

claimVars == <<jobs, returned>>
timerVars == <<timers, autoClaimInterval>>

NoRef == 0
ObjIds == 1 .. (Cardinality(ChannelIds) + Cardinality(Requests))
NoObj == [free |-> TRUE]
NoVoucher == [none |-> TRUE]
NoTime == -1
NoTx == "undefined"

Idle ==
    [pc |-> "idle", voucher |-> NoVoucher, channelState |-> NoRef, cost |-> 0]

NoFile == [exists |-> FALSE]
NoParse == [called |-> FALSE]

(* a claimPayments / claimExpiring run: its arguments, its locals and the   *)
(* claim calls it has made so far with what the chain answered              *)
Jobs == 1 .. 2

IdleJob ==
    [pc |-> "idle", kind |-> "none", forceAll |-> FALSE, bufferSeconds |-> 0,
     now |-> 0, highest |-> <<>>, i |-> 0, calls |-> <<>>, outcomes |-> <<>>,
     txHashes |-> <<>>]

NothingReturned == [txHashes |-> <<>>, outcomes |-> <<>>]

(* setInterval handles; a timer fires when `elapsed` reaches its interval *)
TimerIds == 1 .. 2
NoTimer == 0
Cleared == [active |-> FALSE, interval |-> 0, bufferSeconds |-> 0, elapsed |-> 0]

Init ==
    /\ vouchers = <<>>
    /\ channels = [c \in ChannelIds |-> NoRef]
    /\ heap = [o \in ObjIds |-> NoObj]
    /\ reqs = [r \in Requests |-> Idle]
    /\ disk = NoFile
    /\ totalEarned = "0"
    /\ response = "none"
    /\ parse = NoParse
    /\ now = 0
    /\ jobs = [j \in Jobs |-> IdleJob]
    /\ timers = [t \in TimerIds |-> Cleared]
    /\ autoClaimInterval = NoTimer
    /\ returned = NothingReturned

----------------------------------------------------------------------------
(* VoucherStorage *)

(* faulty variant: amounts written as numbers that drop the lowest bit *)
SerializeVoucher_AsNumber(v) ==
    [v EXCEPT !.amount = ToString((@ \div 2) * 2), !.nonce = ToString(@)]

(* save(): bigint fields become decimal strings; lastVoucher is written    *)
(* out as the voucher object it points to                                  *)
SerializeVoucher(v) ==
    [v EXCEPT !.amount = ToString(@), !.nonce = ToString(@)]

SerializeChannel(ch, vs) ==
    [ch EXCEPT !.deposit = ToString(@),
               !.totalCharged = ToString(@),
               !.lastVoucher = IF @ = 0 THEN NoVoucher
                               ELSE SerializeVoucher(vs[@])]

Save(vs, chs, hp, earned) ==
    [exists |-> TRUE,
     vouchers |-> [i \in 1 .. Len(vs) |-> SerializeVoucher(vs[i])],
     channels |-> [c \in {x \in ChannelIds : chs[x] # NoRef} |->
                     SerializeChannel(hp[chs[c]], vs)],
     totalEarned |-> earned,
     totalClaimed |-> "0"]

(* load(): the document parsed, the decimal strings of vouchers and         *)
(* channels back to bigint; no file, an empty ledger.  The loaded           *)
(* lastVoucher is a record of its own.                                      *)
ParseVoucher(v) ==
    [v EXCEPT !.amount = BigInt(@), !.nonce = BigInt(@)]

ParseChannel(ch) ==
    [ch EXCEPT !.deposit = BigInt(@),
               !.totalCharged = BigInt(@),
               !.lastVoucher = IF @ = NoVoucher THEN NoVoucher ELSE ParseVoucher(@)]

(* a persisted text that is not JSON *)
InvalidJson == [exists |-> TRUE, text |-> "{"]

(* JSON.parse or one of the BigInt conversions of load() throws *)
LoadThrows(doc) ==
    \/ "vouchers" \notin DOMAIN doc
    \/ \E i \in 1 .. Len(doc.vouchers) :
          ~IsDecimal(doc.vouchers[i].amount) \/ ~IsDecimal(doc.vouchers[i].nonce)
    \/ \E c \in DOMAIN doc.channels :
          \/ ~IsDecimal(doc.channels[c].deposit)
          \/ ~IsDecimal(doc.channels[c].totalCharged)
          \/ /\ doc.channels[c].lastVoucher # NoVoucher
             /\ \/ ~IsDecimal(doc.channels[c].lastVoucher.amount)
                \/ ~IsDecimal(doc.channels[c].lastVoucher.nonce)

(* what load() returns when there is no file and what its catch returns *)
EmptyData == [vouchers |-> <<>>, channels |-> <<>>, totalEarned |-> "0"]

(* faulty variant: what converted before the error is kept *)
Load_SkipsBadRecords(doc) ==
    IF ~doc.exists \/ "vouchers" \notin DOMAIN doc
    THEN EmptyData
    ELSE LET good == {i \in 1 .. Len(doc.vouchers) :
                        IsDecimal(doc.vouchers[i].amount) /\ IsDecimal(doc.vouchers[i].nonce)}
             kept == IF good = 1 .. Len(doc.vouchers) THEN Len(doc.vouchers)
                     ELSE (CHOOSE i \in 1 .. Len(doc.vouchers) : i \notin good /\
                             \A j \in 1 .. i - 1 : j \in good) - 1
         IN  [vouchers |-> [i \in 1 .. kept |-> ParseVoucher(doc.vouchers[i])],
              channels |-> [c \in {x \in DOMAIN doc.channels :
                                     /\ IsDecimal(doc.channels[x].deposit)
                                     /\ IsDecimal(doc.channels[x].totalCharged)
                                     /\ doc.channels[x].lastVoucher = NoVoucher} |->
                              ParseChannel(doc.channels[c])],
              totalEarned |-> doc.totalEarned]

Load(doc) ==
    IF ~doc.exists THEN EmptyData
    ELSE IF LoadThrows(doc) THEN EmptyData
    ELSE [vouchers |-> [i \in 1 .. Len(doc.vouchers) |-> ParseVoucher(doc.vouchers[i])],
          channels |-> [c \in DOMAIN doc.channels |-> ParseChannel(doc.channels[c])],
          totalEarned |-> doc.totalEarned]

(* the ledger in memory by value: the voucher list and the channel records, *)
(* lastVoucher being the voucher object it points to                        *)
LedgerOf(vs, chs, hp, earned) ==
    [totalEarned |-> earned,
     vouchers |-> vs,
     channels |-> [c \in {x \in ChannelIds : chs[x] # NoRef} |->
                     [hp[chs[c]] EXCEPT !.lastVoucher =
                         IF @ = 0 THEN NoVoucher ELSE vs[@]]]]

(* getChannel(channelId): the stored object, or null *)
StorageGetChannel(channelId) == channels[channelId]

----------------------------------------------------------------------------
(* DrainService.validateVoucher *)

Reject(error, channel) ==
    [valid |-> FALSE, error |-> error, channel |-> channel, newTotal |-> 0]

NoChannel == [ref |-> NoRef, state |-> NoObj]

(* catch (error): error instanceof Error ? error.message : 'validation_error' *)
Caught(error) ==
    Reject(IF error.isError THEN error.message ELSE "validation_error", NoChannel)

(* step 4: the stored object (expiry backfilled when falsy) or a new one *)
ChannelStateFor(channelId, channelData) ==
    LET ref == StorageGetChannel(channelId)
    IN  IF ref = NoRef
        THEN [ref |-> NoRef,
              state |-> [channelId |-> channelId,
                         consumer |-> channelData.consumer,
                         deposit |-> channelData.deposit,
                         totalCharged |-> 0,
                         expiry |-> channelData.expiry,
                         lastVoucher |-> 0]]
        ELSE [ref |-> ref,
              state |-> IF heap[ref].expiry = 0
                        THEN [heap[ref] EXCEPT !.expiry = channelData.expiry]
                        ELSE heap[ref]]

(* faulty variant: the cost of the request is left out of the funds check *)
ExpectedTotal_IgnoresRequired(previousTotal, requiredAmount) == previousTotal

(* step 5: what the voucher must cover *)
ExpectedTotal(previousTotal, requiredAmount) == previousTotal + requiredAmount

(* faulty variant: the deposit check is off by one *)
ExceedsDeposit_OffByOne(amount, channelData) == amount > channelData.deposit + 1

(* faulty variant: a channel past its expiry counts as without deposit *)
ExceedsDeposit_OrExpired(amount, channelData) ==
    amount > channelData.deposit \/ channelData.expiry <= now

(* step 6 *)
ExceedsDeposit(amount, channelData) == amount > channelData.deposit

(* faulty variant: a nonce equal to the last voucher's passes *)
NonceNotHigher_AllowsEqual(nonce, channelState) ==
    /\ channelState.lastVoucher # 0
    /\ nonce < vouchers[channelState.lastVoucher].nonce

(* step 7: lastVoucher is set and the nonce is not above its nonce *)
NonceNotHigher(nonce, channelState) ==
    /\ channelState.lastVoucher # 0
    /\ nonce <= vouchers[channelState.lastVoucher].nonce

(* faulty variant: the nonce check placed before the deposit check *)
ValidateVoucher_NonceBeforeDeposit(voucher, requiredAmount, readOk) ==
    IF ~IsDecimal(voucher.amount) THEN Caught(BigIntError(voucher.amount))
    ELSE IF ~IsDecimal(voucher.nonce) THEN Caught(BigIntError(voucher.nonce))
    ELSE IF ~readOk THEN Caught(ReadContractError)
    ELSE
    LET amount == BigInt(voucher.amount)
        nonce == BigInt(voucher.nonce)
        channelData == GetChannel(voucher.channelId)
        channelState == ChannelStateFor(voucher.channelId, channelData)
        previousTotal == channelState.state.totalCharged
        expectedTotal == ExpectedTotal(previousTotal, requiredAmount)
        isValid == VerifyTypedData(channelData.consumer, Domain,
                     [channelId |-> voucher.channelId, amount |-> amount,
                      nonce |-> nonce],
                     voucher.signature)
    IN  IF channelData.consumer = ZeroAddress
        THEN Reject("channel_not_found", NoChannel)
        ELSE IF ToLowerCase(channelData.provider) # ToLowerCase(ProviderAddress)
        THEN Reject("wrong_provider", NoChannel)
        ELSE IF amount < expectedTotal
        THEN Reject("insufficient_funds", channelState)
        ELSE IF NonceNotHigher(nonce, channelState.state)
        THEN Reject("invalid_nonce", channelState)
        ELSE IF ExceedsDeposit(amount, channelData)
        THEN Reject("exceeds_deposit", channelState)
        ELSE IF ~isValid
        THEN Reject("invalid_signature", NoChannel)
        ELSE [valid |-> TRUE, error |-> "none", channel |-> channelState,
              newTotal |-> amount]

ValidateVoucher(voucher, requiredAmount, readOk) ==
    IF ~IsDecimal(voucher.amount) THEN Caught(BigIntError(voucher.amount))
    ELSE IF ~IsDecimal(voucher.nonce) THEN Caught(BigIntError(voucher.nonce))
    ELSE IF ~readOk THEN Caught(ReadContractError)
    ELSE
    LET amount == BigInt(voucher.amount)
        nonce == BigInt(voucher.nonce)
        channelData == GetChannel(voucher.channelId)
        channelState == ChannelStateFor(voucher.channelId, channelData)
        previousTotal == channelState.state.totalCharged
        expectedTotal == ExpectedTotal(previousTotal, requiredAmount)
        isValid == VerifyTypedData(channelData.consumer, Domain,
                     [channelId |-> voucher.channelId, amount |-> amount,
                      nonce |-> nonce],
                     voucher.signature)
    IN  IF channelData.consumer = ZeroAddress
        THEN Reject("channel_not_found", NoChannel)
        ELSE IF ToLowerCase(channelData.provider) # ToLowerCase(ProviderAddress)
        THEN Reject("wrong_provider", NoChannel)
        ELSE IF amount < expectedTotal
        THEN Reject("insufficient_funds", channelState)
        ELSE IF ExceedsDeposit(amount, channelData)
        THEN Reject("exceeds_deposit", channelState)
        ELSE IF NonceNotHigher(nonce, channelState.state)
        THEN Reject("invalid_nonce", channelState)
        ELSE IF ~isValid
        THEN Reject("invalid_signature", NoChannel)
        ELSE [valid |-> TRUE, error |-> "none", channel |-> channelState,
              newTotal |-> amount]

(* faulty variant: a stored record is treated like a newly created one and *)
(* its total starts again at 0                                             *)
HeapAfterValidate_ResetsTotal(voucher, readOk) ==
    LET channelData == GetChannel(voucher.channelId)
        ref == StorageGetChannel(voucher.channelId)
    IN  IF /\ IsDecimal(voucher.amount) /\ IsDecimal(voucher.nonce) /\ readOk
           /\ channelData.consumer # ZeroAddress
           /\ ToLowerCase(channelData.provider) = ToLowerCase(ProviderAddress)
           /\ ref # NoRef
        THEN [heap EXCEPT ![ref].expiry = channelData.expiry,
                          ![ref].totalCharged = 0]
        ELSE heap

(* the heap after a validateVoucher call: the expiry backfill is written   *)
(* into the stored object as soon as step 4 is reached                     *)
HeapAfterValidate(voucher, readOk) ==
    LET channelData == GetChannel(voucher.channelId)
        ref == StorageGetChannel(voucher.channelId)
    IN  IF /\ IsDecimal(voucher.amount) /\ IsDecimal(voucher.nonce) /\ readOk
           /\ channelData.consumer # ZeroAddress
           /\ ToLowerCase(channelData.provider) = ToLowerCase(ProviderAddress)
           /\ ref # NoRef
           /\ heap[ref].expiry = 0
        THEN [heap EXCEPT ![ref].expiry = channelData.expiry]
        ELSE heap

----------------------------------------------------------------------------
(* DrainService.storeVoucher over VoucherStorage.storeVoucher/updateChannel *)

Memory == [vouchers |-> vouchers, channels |-> channels, heap |-> heap,
           disk |-> disk, totalEarned |-> totalEarned]

(* faulty variant: the voucher's amount is booked as earned *)
StorageStoreVoucher_BooksEarned(m, storedVoucher) ==
    LET vs == Append(m.vouchers, storedVoucher)
        earned == DecimalString[storedVoucher.amount]
    IN  [m EXCEPT !.vouchers = vs, !.totalEarned = earned,
                  !.disk = Save(vs, m.channels, m.heap, earned)]

StorageStoreVoucher(m, storedVoucher) ==
    LET vs == Append(m.vouchers, storedVoucher)
    IN  [m EXCEPT !.vouchers = vs, !.disk = Save(vs, m.channels, m.heap, m.totalEarned)]

(* faulty variant: the file is written, the record is not set *)
StorageUpdateChannel_OnlySaves(m, channelId, ref) ==
    [m EXCEPT !.disk = Save(m.vouchers, m.channels, m.heap, m.totalEarned)]

StorageUpdateChannel(m, channelId, ref) ==
    LET chs == [m.channels EXCEPT ![channelId] = ref]
    IN  [m EXCEPT !.channels = chs, !.disk = Save(m.vouchers, chs, m.heap, m.totalEarned)]

(* the StoredVoucher record storeVoucher builds *)
NewStoredVoucher(m, voucher, ref) ==
    [channelId |-> voucher.channelId,
     amount |-> BigInt(voucher.amount),
     nonce |-> BigInt(voucher.nonce),
     signature |-> voucher.signature,
     consumer |-> m.heap[ref].consumer,
     claimed |-> FALSE,
     claimedAt |-> NoTime,
     claimTxHash |-> NoTx]

(* faulty variant: the cost is also taken off the deposit *)
UpdateChannelState_SpendsDeposit(m, ref, cost) ==
    [m EXCEPT !.heap[ref].totalCharged = @ + cost,
              !.heap[ref].deposit = @ - cost,
              !.heap[ref].lastVoucher = Len(m.vouchers) + 1]

(* faulty variant: the total is set to the cost instead of raised by it *)
UpdateChannelState_SetsTotal(m, ref, cost) ==
    [m EXCEPT !.heap[ref].totalCharged = cost,
              !.heap[ref].lastVoucher = Len(m.vouchers) + 1]

(* channelState is the object `ref`: it is updated in place, whether or    *)
(* not it is (still) the object the ledger holds for the channel           *)
UpdateChannelState(m, ref, cost) ==
    [m EXCEPT !.heap[ref].totalCharged = @ + cost,
              !.heap[ref].lastVoucher = Len(m.vouchers) + 1]

(* storeVoucher up to the return of this.storage.storeVoucher: the voucher *)
(* is in the list and the first save is done                               *)
VoucherStored(m, voucher, ref, cost) ==
    StorageStoreVoucher(UpdateChannelState(m, ref, cost),
                        NewStoredVoucher(m, voucher, ref))

StoreVoucher(m, voucher, ref, cost) ==
    StorageUpdateChannel(VoucherStored(m, voucher, ref, cost),
                         voucher.channelId, ref)

----------------------------------------------------------------------------
(* Object lifetime *)

NewObj == CHOOSE o \in ObjIds : heap[o] = NoObj /\ \A p \in 1 .. o - 1 : heap[p] # NoObj

(* objects nothing refers to any more are garbage *)
Collect(hp, chs, rq) ==
    [o \in ObjIds |->
       IF (\E c \in ChannelIds : chs[c] = o) \/ (\E r \in Requests : rq[r].channelState = o)
       THEN hp[o] ELSE NoObj]

InFlight == {r \in Requests : reqs[r].pc # "idle"}
NoneInFlight == InFlight = {}

----------------------------------------------------------------------------
(* POST /v1/chat/completions *)

(* From the parsed voucher to the pre-auth validation: reject with 402, or *)
(* keep validation.channel and start the backend call                      *)
PreAuth(r, inputs, streamChoices) ==
    /\ reqs[r].pc = "idle"
    /\ Len(vouchers) + Cardinality(InFlight) < MaxVouchers
    /\ \E in \in inputs :
         LET voucher == in[1]
             estimatedMinCost == in[2]
             readOk == in[3]
             validation == ValidateVoucher(voucher, estimatedMinCost, readOk)
             hp == HeapAfterValidate(voucher, readOk)
             o == IF validation.channel.ref # NoRef THEN validation.channel.ref ELSE NewObj
         IN  IF validation.valid
             THEN \E isStreaming \in streamChoices :
                    /\ reqs' = [reqs EXCEPT ![r] =
                                  [pc |-> IF isStreaming THEN "streaming" ELSE "completion",
                                   voucher |-> voucher, channelState |-> o, cost |-> 0]]
                    /\ heap' = [hp EXCEPT ![o] = validation.channel.state]
                    /\ UNCHANGED <<vouchers, channels, disk, totalEarned, response>>
             ELSE /\ response' = validation.error
                  /\ heap' = hp
                  /\ UNCHANGED <<vouchers, channels, disk, totalEarned, reqs>>
    /\ UNCHANGED <<now, claimVars, timerVars>>

(* a request whose header parsed to one of `inputs` *)
RequestWith(r, inputs, streamChoices) ==
    /\ PreAuth(r, inputs, streamChoices)
    /\ UNCHANGED parse

(* a request with the raw header: parse it, answer 402 with                *)
(* invalid_voucher_format when the parser returns null, else go on to the  *)
(* pre-auth validation                                                     *)
RequestHeader(r, header, costs, streamChoices) ==
    LET voucher == ParseVoucherHeader(header)
    IN  /\ parse' = [called |-> TRUE, header |-> header, voucher |-> voucher]
        /\ IF voucher = Null
           THEN /\ reqs[r].pc = "idle"
                /\ response' = "invalid_voucher_format"
                /\ UNCHANGED <<vouchers, channels, heap, disk, totalEarned, reqs,
                               now, claimVars, timerVars>>
           ELSE PreAuth(r, {voucher} \X costs \X {TRUE}, streamChoices)

Request(r, streamChoices) == RequestWith(r, ValidateInputs, streamChoices)

(* X-DRAIN-Cost, X-DRAIN-Total and X-DRAIN-Remaining of the answer, read   *)
(* from channelState after storeVoucher has returned in memory m           *)
ResponseHeaders(m, channelState, actualCost) ==
    [cost |-> actualCost,
     total |-> m.heap[channelState].totalCharged + actualCost,
     remaining |-> m.heap[channelState].deposit - m.heap[channelState].totalCharged
                     - actualCost]

(* Streaming path: the stream ends, the cost is computed and the voucher   *)
(* is stored at once                                                       *)
StreamEnd(r) ==
    /\ reqs[r].pc = "streaming"
    /\ \E actualCost \in Costs :
         LET m == StoreVoucher(Memory, reqs[r].voucher, reqs[r].channelState, actualCost)
             rq == [reqs EXCEPT ![r] = Idle]
         IN  /\ response' = "ok"
             /\ vouchers' = m.vouchers
             /\ channels' = m.channels
             /\ disk' = m.disk
             /\ totalEarned' = m.totalEarned
             /\ reqs' = rq
             /\ heap' = Collect(m.heap, m.channels, rq)
    /\ UNCHANGED <<parse, now, claimVars, timerVars>>

(* faulty variant: the voucher is stored although the post-call validation *)
(* came back invalid                                                       *)
CompletionReturns_StoresAnyway(r) ==
    /\ reqs[r].pc = "completion"
    /\ \E actualCost \in Costs, readOk \in BOOLEAN :
         LET actualValidation == ValidateVoucher(reqs[r].voucher, actualCost, readOk)
             hp == HeapAfterValidate(reqs[r].voucher, readOk)
             m == StoreVoucher([Memory EXCEPT !.heap = hp], reqs[r].voucher,
                               reqs[r].channelState, actualCost)
             rq == [reqs EXCEPT ![r] =
                      IF actualValidation.valid
                      THEN [@ EXCEPT !.pc = "validated", !.cost = actualCost]
                      ELSE Idle]
         IN  /\ reqs' = rq
             /\ response' = IF actualValidation.valid THEN response
                            ELSE "insufficient_funds_post"
             /\ IF actualValidation.valid
                THEN /\ heap' = Collect(hp, channels, rq)
                     /\ UNCHANGED <<vouchers, channels, disk, totalEarned>>
                ELSE /\ vouchers' = m.vouchers
                     /\ channels' = m.channels
                     /\ disk' = m.disk
                     /\ totalEarned' = m.totalEarned
                     /\ heap' = Collect(m.heap, m.channels, rq)
    /\ UNCHANGED <<parse, now, claimVars, timerVars>>

(* Non-streaming path: the backend call returns and the voucher is         *)
(* validated against the actual cost                                       *)
CompletionReturns(r) ==
    /\ reqs[r].pc = "completion"
    /\ \E actualCost \in Costs, readOk \in BOOLEAN :
         LET actualValidation == ValidateVoucher(reqs[r].voucher, actualCost, readOk)
             hp == HeapAfterValidate(reqs[r].voucher, readOk)
             rq == [reqs EXCEPT ![r] =
                      IF actualValidation.valid
                      THEN [@ EXCEPT !.pc = "validated", !.cost = actualCost]
                      ELSE Idle]
         IN  /\ reqs' = rq
             /\ response' = IF actualValidation.valid THEN response
                            ELSE "insufficient_funds_post"
             /\ heap' = Collect(hp, channels, rq)
             /\ UNCHANGED <<vouchers, channels, disk, totalEarned>>
    /\ UNCHANGED <<parse, now, claimVars, timerVars>>

(* Non-streaming path: the handler resumes after the valid post-call       *)
(* validation and stores the voucher                                       *)
StoreValidated(r) ==
    /\ reqs[r].pc = "validated"
    /\ LET m == StoreVoucher(Memory, reqs[r].voucher, reqs[r].channelState, reqs[r].cost)
           rq == [reqs EXCEPT ![r] = Idle]
       IN  /\ response' = "ok"
           /\ vouchers' = m.vouchers
           /\ channels' = m.channels
           /\ disk' = m.disk
           /\ totalEarned' = m.totalEarned
           /\ reqs' = rq
           /\ heap' = Collect(m.heap, m.channels, rq)
    /\ UNCHANGED <<parse, now, claimVars, timerVars>>

(* faulty variant: the voucher is recorded, at no cost, before the 500 *)
BackendFails_RecordsVoucher(r) ==
    /\ reqs[r].pc \in {"streaming", "completion"}
    /\ LET m == StoreVoucher(Memory, reqs[r].voucher, reqs[r].channelState, 0)
           rq == [reqs EXCEPT ![r] = Idle]
       IN  /\ reqs' = rq
           /\ response' = "api_error"
           /\ vouchers' = m.vouchers
           /\ channels' = m.channels
           /\ disk' = m.disk
           /\ totalEarned' = m.totalEarned
           /\ heap' = Collect(m.heap, m.channels, rq)
    /\ UNCHANGED <<parse, now, claimVars, timerVars>>

(* The backend call throws: 500, nothing stored *)
BackendFails(r) ==
    /\ reqs[r].pc \in {"streaming", "completion"}
    /\ LET rq == [reqs EXCEPT ![r] = Idle]
       IN  /\ reqs' = rq
           /\ response' = "api_error"
           /\ heap' = Collect(heap, channels, rq)
           /\ UNCHANGED <<vouchers, channels, disk, totalEarned>>
    /\ UNCHANGED <<parse, now, claimVars, timerVars>>

----------------------------------------------------------------------------
(* VoucherStorage: the vouchers to claim *)

(* faulty variant: the Map never finds the channel's entry *)
EntryOf_NeverFinds(vs, highest, channelId) == 0

(* position of the channel's entry in the Map, 0 when it has none *)
EntryOf(vs, highest, channelId) ==
    IF \E k \in 1 .. Len(highest) : vs[highest[k]].channelId = channelId
    THEN CHOOSE k \in 1 .. Len(highest) : vs[highest[k]].channelId = channelId
    ELSE 0

(* the loop of getHighestVoucherPerChannel from voucher i on; `highest` is  *)
(* the Map so far: its values (as positions in the voucher list) in         *)
(* insertion order of their keys                                            *)
RECURSIVE HighestFrom(_, _, _)
HighestFrom(vs, i, highest) ==
    IF i > Len(vs) THEN highest
    ELSE IF vs[i].claimed THEN HighestFrom(vs, i + 1, highest)
    ELSE LET k == EntryOf(vs, highest, vs[i].channelId)
         IN  IF k = 0
             THEN HighestFrom(vs, i + 1, Append(highest, i))
             ELSE IF vs[i].amount > vs[highest[k]].amount
             THEN HighestFrom(vs, i + 1, [highest EXCEPT ![k] = i])
             ELSE HighestFrom(vs, i + 1, highest)

GetHighestVoucherPerChannel(vs) == HighestFrom(vs, 1, <<>>)

(* faulty variant: every voucher of the channel is marked, claimed or not *)
MarkClaimed_Overwrites(vs, channelId, txHash, time) ==
    [i \in 1 .. Len(vs) |->
       IF vs[i].channelId = channelId
       THEN [vs[i] EXCEPT !.claimed = TRUE, !.claimedAt = time, !.claimTxHash = txHash]
       ELSE vs[i]]

(* faulty variant: only the channel's largest unclaimed voucher is marked *)
MarkClaimed_HighestOnly(vs, channelId, txHash, time) ==
    [i \in 1 .. Len(vs) |->
       IF /\ vs[i].channelId = channelId /\ ~vs[i].claimed
          /\ \A j \in 1 .. Len(vs) :
               (vs[j].channelId = channelId /\ ~vs[j].claimed) => vs[j].amount <= vs[i].amount
       THEN [vs[i] EXCEPT !.claimed = TRUE, !.claimedAt = time, !.claimTxHash = txHash]
       ELSE vs[i]]

(* faulty variant: the channel is not looked at *)
MarkClaimed_AnyChannel(vs, channelId, txHash, time) ==
    [i \in 1 .. Len(vs) |->
       IF ~vs[i].claimed
       THEN [vs[i] EXCEPT !.claimed = TRUE, !.claimedAt = time, !.claimTxHash = txHash]
       ELSE vs[i]]

(* markClaimed(channelId, txHash) at clock value `time` *)
MarkClaimed(vs, channelId, txHash, time) ==
    [i \in 1 .. Len(vs) |->
       IF vs[i].channelId = channelId /\ ~vs[i].claimed
       THEN [vs[i] EXCEPT !.claimed = TRUE, !.claimedAt = time, !.claimTxHash = txHash]
       ELSE vs[i]]

StorageMarkClaimed(m, channelId, txHash, time) ==
    LET vs == MarkClaimed(m.vouchers, channelId, txHash, time)
    IN  [m EXCEPT !.vouchers = vs, !.disk = Save(vs, m.channels, m.heap, m.totalEarned)]

(* VoucherStorage.getStats *)
GetStats(m) ==
    [totalVouchers |-> Len(m.vouchers),
     unclaimedVouchers |-> Cardinality({i \in 1 .. Len(m.vouchers) : ~m.vouchers[i].claimed}),
     activeChannels |-> Cardinality({c \in ChannelIds : m.channels[c] # NoRef}),
     totalEarned |-> BigInt(m.totalEarned)]

----------------------------------------------------------------------------
(* DrainService.claimPayments and DrainService.claimExpiring *)

ClaimThreshold == 2

(* transaction ids the chain may answer a claim call with *)
TxHashes == {"0xt1", "0xt2"}

(* faulty variant: forceAll is not looked at *)
ClaimPaymentsSkips_IgnoresForce(job, k) ==
    vouchers[job.highest[k]].amount < ClaimThreshold

(* claimPayments: the entry is passed over *)
ClaimPaymentsSkips(job, k) ==
    LET voucher == vouchers[job.highest[k]]
    IN  ~job.forceAll /\ voucher.amount < ClaimThreshold

(* faulty variant: a channel expiring in exactly bufferSeconds is passed over *)
ClaimExpiringSkips_StrictBuffer(job, k) ==
    LET voucher == vouchers[job.highest[k]]
        ref == StorageGetChannel(voucher.channelId)
    IN  \/ ref = NoRef
        \/ heap[ref].expiry = 0
        \/ heap[ref].expiry - job.now >= job.bufferSeconds
        \/ voucher.amount <= 0

(* claimExpiring: the entry is passed over *)
ClaimExpiringSkips(job, k) ==
    LET voucher == vouchers[job.highest[k]]
        ref == StorageGetChannel(voucher.channelId)
    IN  \/ ref = NoRef
        \/ heap[ref].expiry = 0
        \/ heap[ref].expiry - job.now > job.bufferSeconds
        \/ voucher.amount <= 0

Skips(job, k) ==
    IF job.kind = "claimExpiring" THEN ClaimExpiringSkips(job, k)
    ELSE ClaimPaymentsSkips(job, k)

(* the arguments of the claim call for a voucher *)
ClaimArgs(voucher) ==
    [channelId |-> voucher.channelId, amount |-> voucher.amount,
     nonce |-> voucher.nonce, signature |-> voucher.signature]

(* the first entry from k on that is not passed over *)
RECURSIVE NextCall(_, _)
NextCall(job, k) ==
    IF k > Len(job.highest) THEN k
    ELSE IF Skips(job, k) THEN NextCall(job, k + 1)
    ELSE k

(* the loop from entry `from` up to its next writeContract call, where the  *)
(* run waits for the chain, or to the return of txHashes                    *)
Continue(job, from) ==
    LET k == NextCall(job, from)
    IN  IF k > Len(job.highest)
        THEN [job EXCEPT !.pc = "returned", !.i = k]
        ELSE [job EXCEPT !.pc = "claiming", !.i = k,
                         !.calls = Append(@, ClaimArgs(vouchers[job.highest[k]]))]

NewJob(kind, forceAll, bufferSeconds) ==
    [IdleJob EXCEPT !.kind = kind, !.forceAll = forceAll,
                    !.bufferSeconds = bufferSeconds, !.now = now,
                    !.highest = GetHighestVoucherPerChannel(vouchers)]

Claiming == {j \in Jobs : jobs[j].pc = "claiming"}
FreeJob == CHOOSE j \in Jobs : jobs[j].pc = "idle" /\ \A i \in 1 .. j - 1 : jobs[i].pc # "idle"

(* run j has got to `job`: waiting for the chain, or returned *)
Settle(j, job) ==
    IF job.pc = "returned"
    THEN /\ jobs' = [jobs EXCEPT ![j] = IdleJob]
         /\ returned' = [txHashes |-> job.txHashes, outcomes |-> job.outcomes]
    ELSE /\ jobs' = [jobs EXCEPT ![j] = job]
         /\ returned' = returned

(* a call of claimPayments or claimExpiring, up to its first await *)
StartRun(job) ==
    /\ \E j \in Jobs : jobs[j].pc = "idle"
    /\ Settle(FreeJob, Continue(job, 1))

(* POST /v1/admin/claim *)
ClaimPayments(forceAll) ==
    /\ StartRun(NewJob("claimPayments", forceAll, 0))
    /\ UNCHANGED <<vouchers, channels, heap, disk, totalEarned, reqs, response, parse, now, timerVars>>

(* the run after writeContract returned `hash`: push, on to the next entry *)
AfterSuccess(job, hash) ==
    Continue([job EXCEPT !.outcomes = Append(@, hash),
                         !.txHashes = Append(@, hash)], job.i + 1)

(* faulty variant: the error ends the loop *)
AfterFailure_Aborts(job) ==
    [job EXCEPT !.outcomes = Append(@, "failed"), !.pc = "returned",
                !.i = Len(job.highest) + 1]

(* the run after writeContract threw: the error is logged, next entry *)
AfterFailure(job) ==
    Continue([job EXCEPT !.outcomes = Append(@, "failed")], job.i + 1)

(* the channel whose claim call run j waits for *)
ClaimingFor(j) == vouchers[jobs[j].highest[jobs[j].i]].channelId

(* writeContract returns a transaction id: markClaimed, then the loop goes on *)
ClaimSucceeds(j) ==
    /\ jobs[j].pc = "claiming"
    /\ \E hash \in TxHashes :
         LET m == StorageMarkClaimed(Memory, ClaimingFor(j), hash, now)
         IN  /\ vouchers' = m.vouchers
             /\ disk' = m.disk
             /\ totalEarned' = m.totalEarned
             /\ Settle(j, AfterSuccess(jobs[j], hash))
    /\ UNCHANGED <<channels, heap, reqs, response, parse, now, timerVars>>

(* faulty variant: the vouchers are marked claimed although the call threw *)
ClaimFails_MarksAnyway(j) ==
    /\ jobs[j].pc = "claiming"
    /\ LET m == StorageMarkClaimed(Memory, ClaimingFor(j), "failed", now)
       IN  /\ vouchers' = m.vouchers
           /\ disk' = m.disk
           /\ totalEarned' = m.totalEarned
           /\ Settle(j, AfterFailure(jobs[j]))
    /\ UNCHANGED <<channels, heap, reqs, response, parse, now, timerVars>>

(* writeContract throws *)
ClaimFails(j) ==
    /\ jobs[j].pc = "claiming"
    /\ Settle(j, AfterFailure(jobs[j]))
    /\ UNCHANGED <<vouchers, channels, heap, disk, totalEarned, reqs, response, parse, now, timerVars>>

----------------------------------------------------------------------------
(* DrainService.startAutoClaim, DrainService.stopAutoClaim, the clock *)

(* intervals and buffers, in the clock's unit *)
Intervals == {1}
Buffers == {1, 2}

ActiveTimers == {t \in TimerIds : timers[t].active}
NewTimer == CHOOSE t \in TimerIds : ~timers[t].active /\ \A u \in 1 .. t - 1 : timers[u].active

(* faulty variant: no look at the handle of a timer already set *)
StartAutoClaim_Unguarded(intervalMinutes, bufferSeconds) ==
    /\ ActiveTimers # TimerIds
    /\ timers' = [timers EXCEPT ![NewTimer] =
                    [active |-> TRUE, interval |-> intervalMinutes,
                     bufferSeconds |-> bufferSeconds, elapsed |-> 0]]
    /\ autoClaimInterval' = NewTimer
    /\ StartRun(NewJob("claimExpiring", FALSE, bufferSeconds))
    /\ UNCHANGED <<vouchers, channels, heap, disk, totalEarned, reqs, response, parse, now>>

StartAutoClaim(intervalMinutes, bufferSeconds) ==
    IF autoClaimInterval # NoTimer
    THEN UNCHANGED vars
    ELSE /\ ActiveTimers # TimerIds
         /\ timers' = [timers EXCEPT ![NewTimer] =
                         [active |-> TRUE, interval |-> intervalMinutes,
                          bufferSeconds |-> bufferSeconds, elapsed |-> 0]]
         /\ autoClaimInterval' = NewTimer
         /\ StartRun(NewJob("claimExpiring", FALSE, bufferSeconds))
         /\ UNCHANGED <<vouchers, channels, heap, disk, totalEarned, reqs, response, parse, now>>

(* faulty variant: the handle is forgotten, the interval is not cleared *)
StopAutoClaim_KeepsTimer ==
    IF autoClaimInterval # NoTimer
    THEN /\ autoClaimInterval' = NoTimer
         /\ UNCHANGED <<vouchers, channels, heap, disk, totalEarned, reqs, response, parse, now, claimVars, timers>>
    ELSE UNCHANGED vars

StopAutoClaim ==
    IF autoClaimInterval # NoTimer
    THEN /\ timers' = [timers EXCEPT ![autoClaimInterval] = Cleared]
         /\ autoClaimInterval' = NoTimer
         /\ UNCHANGED <<vouchers, channels, heap, disk, totalEarned, reqs, response, parse, now, claimVars>>
    ELSE UNCHANGED vars

(* faulty variant: the timer fires once *)
TimerFires_Once(t) ==
    /\ timers[t].active
    /\ timers[t].elapsed = timers[t].interval
    /\ timers' = [timers EXCEPT ![t] = Cleared]
    /\ StartRun(NewJob("claimExpiring", FALSE, timers[t].bufferSeconds))
    /\ UNCHANGED <<vouchers, channels, heap, disk, totalEarned, reqs, response, parse, now, autoClaimInterval>>

(* the interval callback: claimExpiring(bufferSeconds) inside try/catch *)
TimerFires(t) ==
    /\ timers[t].active
    /\ timers[t].elapsed = timers[t].interval
    /\ timers' = [timers EXCEPT ![t].elapsed = 0]
    /\ StartRun(NewJob("claimExpiring", FALSE, timers[t].bufferSeconds))
    /\ UNCHANGED <<vouchers, channels, heap, disk, totalEarned, reqs, response, parse, now, autoClaimInterval>>

(* One unit of time passes; a timer that is due fires first.  Clock values  *)
(* from MaxTime on are one value: every expiry lies before it.              *)
Tick ==
    /\ \A t \in ActiveTimers : timers[t].elapsed < timers[t].interval
    /\ now' = IF now < MaxTime THEN now + 1 ELSE now
    /\ timers' = [t \in TimerIds |->
                    IF timers[t].active THEN [timers[t] EXCEPT !.elapsed = @ + 1]
                    ELSE timers[t]]
    /\ UNCHANGED <<vouchers, channels, heap, disk, totalEarned, reqs, response, parse, autoClaimInterval, claimVars>>

----------------------------------------------------------------------------
(* Specifications *)

(* requests overlap freely, on both paths *)
Next ==
    \E r \in Requests :
        \/ Request(r, BOOLEAN)
        \/ StreamEnd(r)
        \/ CompletionReturns(r)
        \/ StoreValidated(r)
        \/ BackendFails(r)

Spec == Init /\ [][Next]_vars

(* requests are processed one at a time, on both paths *)
NextSeq ==
    \E r \in Requests :
        \/ NoneInFlight /\ Request(r, BOOLEAN)
        \/ StreamEnd(r)
        \/ CompletionReturns(r)
        \/ StoreValidated(r)
        \/ BackendFails(r)

SpecSeq == Init /\ [][NextSeq]_vars

(* requests overlap freely; every request takes the non-streaming path *)
NextPost ==
    \E r \in Requests :
        \/ Request(r, {FALSE})
        \/ CompletionReturns(r)
        \/ StoreValidated(r)
        \/ BackendFails(r)

SpecPost == Init /\ [][NextPost]_vars

(* one at a time, every request on the non-streaming path: each            *)
(* storeVoucher follows a valid validateVoucher with the same cost         *)
NextSeqPost ==
    \E r \in Requests :
        \/ NoneInFlight /\ Request(r, {FALSE})
        \/ CompletionReturns(r)
        \/ StoreValidated(r)
        \/ BackendFails(r)

SpecSeqPost == Init /\ [][NextSeqPost]_vars

(* requests with raw headers, one at a time, on both paths *)
NextParse ==
    \E r \in Requests :
        \/ \E header \in Headers :
              NoneInFlight /\ RequestHeader(r, header, Costs, BOOLEAN)
        \/ StreamEnd(r)
        \/ CompletionReturns(r)
        \/ StoreValidated(r)
        \/ BackendFails(r)

SpecParse == Init /\ [][NextParse]_vars

(* vouchers of two channels, signed by their consumers *)
TwoChannelInputs ==
    ({WellSigned("c1", a, n) : <<a, n>> \in AmountStrings \X NonceStrings}
       \cup {WellSigned("c2", "2", "1")})
        \X Costs \X {TRUE}

(* requests one at a time on two channels and manual claims, one run at a   *)
(* time, whose claim calls succeed or fail                                  *)
NextClaim ==
    \/ \E r \in Requests :
          \/ NoneInFlight /\ RequestWith(r, TwoChannelInputs, {FALSE})
          \/ CompletionReturns(r)
          \/ StoreValidated(r)
    \/ \E forceAll \in BOOLEAN : Claiming = {} /\ ClaimPayments(forceAll)
    \/ \E j \in Jobs : ClaimSucceeds(j) \/ ClaimFails(j)

SpecClaim == Init /\ [][NextClaim]_vars

(* one voucher on each of two channels *)
OneEachInputs ==
    ({WellSigned("c1", a, "1") : a \in {"0", "1"}} \cup {WellSigned("c2", "2", "1")})
        \X {0} \X {TRUE}

(* the process may start at any clock value *)
InitAnyTime ==
    /\ vouchers = <<>>
    /\ channels = [c \in ChannelIds |-> NoRef]
    /\ heap = [o \in ObjIds |-> NoObj]
    /\ reqs = [r \in Requests |-> Idle]
    /\ disk = NoFile
    /\ totalEarned = "0"
    /\ response = "none"
    /\ parse = NoParse
    /\ now \in 0 .. MaxTime
    /\ jobs = [j \in Jobs |-> IdleJob]
    /\ timers = [t \in TimerIds |-> Cleared]
    /\ autoClaimInterval = NoTimer
    /\ returned = NothingReturned

(* within one unit of time: streamed requests one at a time; manual claims  *)
(* and the auto-claim timer started and stopped, one run at a time; claim   *)
(* calls that succeed or fail                                               *)
NextExpiring ==
    \/ \E r \in Requests :
          \/ NoneInFlight /\ RequestWith(r, OneEachInputs, {TRUE})
          \/ StreamEnd(r)
    \/ \E forceAll \in BOOLEAN : Claiming = {} /\ ClaimPayments(forceAll)
    \/ \E intervalMinutes \in Intervals, bufferSeconds \in Buffers :
          Claiming = {} /\ StartAutoClaim(intervalMinutes, bufferSeconds)
    \/ StopAutoClaim
    \/ \E j \in Jobs : ClaimSucceeds(j) \/ ClaimFails(j)

SpecExpiring == InitAnyTime /\ [][NextExpiring]_vars

(* the provider's start-up call startAutoClaim(10, 3600), in the clock's    *)
(* unit: the check interval is shorter than the buffer                      *)
AutoInterval == 2
AutoBuffer == 3

(* vouchers of two channels, a second one on the channel that expires last *)
AutoInputs ==
    {WellSigned("c1", "1", "1"), WellSigned("c2", "1", "1"), WellSigned("c2", "2", "2")}
        \X {0} \X {TRUE}

(* the inputs whose channel has not reached its expiry *)
NotExpired(inputs) == {in \in inputs : now < GetChannel(in[1].channelId).expiry}

(* auto-claim under the best conditions: the timer is started before any    *)
(* voucher arrives; a request is on a channel that has not expired and is   *)
(* served within the unit of time it arrives in; every claim call succeeds, *)
(* within the unit of time it is made in                                    *)
NextAuto ==
    \/ StartAutoClaim(AutoInterval, AutoBuffer)
    \/ \E r \in Requests :
          \/ /\ NoneInFlight
             /\ autoClaimInterval # NoTimer
             /\ RequestWith(r, NotExpired(AutoInputs), {TRUE})
          \/ StreamEnd(r)
    \/ \E t \in TimerIds : TimerFires(t)
    \/ Claiming = {} /\ NoneInFlight /\ Tick
    \/ \E j \in Jobs : ClaimSucceeds(j)

SpecAuto == Init /\ [][NextAuto]_vars

(* auto-claim with claim calls that may fail: as NextAuto, and a claim call *)
(* succeeds or fails                                                        *)
NextAutoRetry ==
    \/ NextAuto
    \/ \E j \in Jobs : ClaimFails(j)

(* time passes, a due timer fires, a claim call is answered, and the chain  *)
(* does not refuse for ever a claim that is made again and again            *)
SpecAutoRetry ==
    /\ Init
    /\ [][NextAutoRetry]_vars
    /\ WF_vars(Claiming = {} /\ NoneInFlight /\ Tick)
    /\ WF_vars(\E r \in Requests : StreamEnd(r))
    /\ WF_vars(\E t \in TimerIds : TimerFires(t))
    /\ WF_vars(\E j \in Jobs : ClaimSucceeds(j) \/ ClaimFails(j))
    /\ SF_vars(\E j \in Jobs : ClaimSucceeds(j))

(* within one unit of time, claim runs overlap: manual claims and the run   *)
(* startAutoClaim makes at once start while an earlier run waits for the    *)
(* chain; between the runs, streamed requests one at a time store one       *)
(* voucher per channel                                                      *)
NextOverlap ==
    \/ \E r \in Requests :
          \/ Claiming = {} /\ NoneInFlight /\ RequestWith(r, OneEachInputs, {TRUE})
          \/ StreamEnd(r)
    \/ \E forceAll \in BOOLEAN : ClaimPayments(forceAll)
    \/ \E intervalMinutes \in Intervals, bufferSeconds \in Buffers :
          StartAutoClaim(intervalMinutes, bufferSeconds)
    \/ StopAutoClaim
    \/ \E j \in Jobs : ClaimSucceeds(j) \/ ClaimFails(j)

SpecOverlap == Init /\ [][NextOverlap]_vars

(* the scheduler is started and stopped again and again while time passes;  *)
(* between the runs, streamed requests one at a time store one voucher per  *)
(* channel; claim calls succeed                                             *)
NextTimer ==
    \/ \E r \in Requests :
          \/ Claiming = {} /\ NoneInFlight /\ RequestWith(r, OneEachInputs, {TRUE})
          \/ StreamEnd(r)
    \/ \E intervalMinutes \in Intervals, bufferSeconds \in Buffers :
          StartAutoClaim(intervalMinutes, bufferSeconds)
    \/ StopAutoClaim
    \/ \E t \in TimerIds : TimerFires(t)
    \/ Claiming = {} /\ NoneInFlight /\ Tick
    \/ \E j \in Jobs : ClaimSucceeds(j)

SpecTimer == Init /\ [][NextTimer]_vars

(* A ledger file written before channel records had an expiry: channel   *)
(* c1 with one committed voucher and no expiry (falsy once loaded)         *)
LegacyMemory ==
    LET channelData == GetChannel("c1")
        created == [channelId |-> "c1",
                    consumer |-> channelData.consumer,
                    deposit |-> channelData.deposit,
                    totalCharged |-> 0,
                    expiry |-> 0,
                    lastVoucher |-> 0]
    IN  StoreVoucher([vouchers |-> <<>>,
                      channels |-> [c \in ChannelIds |-> NoRef],
                      heap |-> [o \in ObjIds |-> IF o = 1 THEN created ELSE NoObj],
                      disk |-> NoFile,
                      totalEarned |-> "0"],
                     WellSigned("c1", "0", "1"), 1, 0)

(* the process starts on no file or on the legacy file *)
InitLegacy ==
    /\ totalEarned = "0"
    /\ \/ /\ vouchers = <<>>
          /\ channels = [c \in ChannelIds |-> NoRef]
          /\ heap = [o \in ObjIds |-> NoObj]
          /\ disk = NoFile
       \/ /\ vouchers = LegacyMemory.vouchers
          /\ channels = LegacyMemory.channels
          /\ heap = LegacyMemory.heap
          /\ disk = LegacyMemory.disk
    /\ reqs = [r \in Requests |-> Idle]
    /\ response = "none"
    /\ parse = NoParse
    /\ now = 0
    /\ jobs = [j \in Jobs |-> IdleJob]
    /\ timers = [t \in TimerIds |-> Cleared]
    /\ autoClaimInterval = NoTimer
    /\ returned = NothingReturned

(* requests one at a time and manual claims, one run at a time *)
NextLegacy ==
    \/ \E r \in Requests :
          \/ NoneInFlight /\ Request(r, BOOLEAN)
          \/ StreamEnd(r)
          \/ CompletionReturns(r)
          \/ StoreValidated(r)
          \/ BackendFails(r)
    \/ \E forceAll \in BOOLEAN : Claiming = {} /\ NoneInFlight /\ ClaimPayments(forceAll)
    \/ \E j \in Jobs : ClaimSucceeds(j) \/ ClaimFails(j)

SpecLegacy == InitLegacy /\ [][NextLegacy]_vars

(* Files the process may find at start: none, a text that is not JSON, a   *)
(* document the program wrote (two vouchers, one channel record, with      *)
(* either value of totalEarned), that document with one field that does    *)
(* not convert, and the legacy document with a totalEarned of 2            *)
Documents ==
    LET written == StoreVoucher(LegacyMemory, WellSigned("c1", "1", "2"), 1, 1).disk
    IN  {NoFile, InvalidJson}
        \cup {[written EXCEPT !.totalEarned = earned] : earned \in {"0", "2"}}
        \cup {[written EXCEPT !.vouchers[2].amount = "abc", !.totalEarned = "2"],
              [written EXCEPT !.vouchers[1].nonce = "abc"],
              [written EXCEPT !.channels["c1"].deposit = "abc"],
              [written EXCEPT !.channels["c1"].totalCharged = "abc"],
              [written EXCEPT !.channels["c1"].lastVoucher.amount = "abc"],
              [LegacyMemory.disk EXCEPT !.totalEarned = "2"]}

(* this.data = this.load(): the loaded records as the objects of the ledger *)
DataOf(doc) ==
    LET data == Load(doc)
        ids == DOMAIN data.channels
        ref == CHOOSE f \in [ids -> 1 .. Cardinality(ids)] :
                   \A a, b \in ids : a # b => f[a] # f[b]
        last(ch) == IF \E i \in 1 .. Len(data.vouchers) : data.vouchers[i] = ch.lastVoucher
                    THEN CHOOSE i \in 1 .. Len(data.vouchers) :
                            data.vouchers[i] = ch.lastVoucher
                    ELSE 0
    IN  [vouchers |-> data.vouchers,
         channels |-> [c \in ChannelIds |-> IF c \in ids THEN ref[c] ELSE NoRef],
         heap |-> [o \in ObjIds |->
                     IF \E c \in ids : ref[c] = o
                     THEN LET ch == data.channels[CHOOSE c \in ids : ref[c] = o]
                          IN  [ch EXCEPT !.lastVoucher = last(ch)]
                     ELSE NoObj],
         disk |-> doc,
         totalEarned |-> data.totalEarned]

(* the constructor of VoucherStorage on any of the files *)
InitLoad ==
    /\ \E doc \in Documents :
          /\ vouchers = DataOf(doc).vouchers
          /\ channels = DataOf(doc).channels
          /\ heap = DataOf(doc).heap
          /\ disk = doc
          /\ totalEarned = DataOf(doc).totalEarned
    /\ reqs = [r \in Requests |-> Idle]
    /\ response = "none"
    /\ parse = NoParse
    /\ now = 0
    /\ jobs = [j \in Jobs |-> IdleJob]
    /\ timers = [t \in TimerIds |-> Cleared]
    /\ autoClaimInterval = NoTimer
    /\ returned = NothingReturned

SpecLoad == InitLoad /\ [][NextLegacy]_vars

(* each request slot serves one channel: well-signed vouchers over 1 with  *)
(* every nonce, at every cost                                              *)
OwnInputs ==
    [r \in Requests |->
       {WellSigned(IF r = "r1" THEN "c1" ELSE "c2", "1", n) : n \in NonceStrings}
           \X Costs \X {TRUE}]

(* streamed requests on two distinct channels overlap with each other and  *)
(* with forced claim runs whose calls succeed, on a ledger that starts     *)
(* empty or from the legacy file                                           *)
NextChannels ==
    \/ \E r \in Requests :
          \/ RequestWith(r, OwnInputs[r], {TRUE})
          \/ StreamEnd(r)
    \/ Claiming = {} /\ ClaimPayments(TRUE)
    \/ \E j \in Jobs : ClaimSucceeds(j)

SpecChannels == InitLegacy /\ [][NextChannels]_vars

----------------------------------------------------------------------------
(* Vocabulary of the properties *)

StoredChannels == {c \in ChannelIds : channels[c] # NoRef}
ChannelRecord(c) == heap[channels[c]]
VouchersOf(c) == {i \in 1 .. Len(vouchers) : vouchers[i].channelId = c}

(* what the ledger holds for a channel, whether or not it has a record *)
TotalCharged(c) == IF channels[c] = NoRef THEN 0 ELSE ChannelRecord(c).totalCharged
HasLastVoucher(c) == channels[c] # NoRef /\ ChannelRecord(c).lastVoucher # 0
LastNonce(c) == vouchers[ChannelRecord(c).lastVoucher].nonce

(* validateVoucher calls whose voucher parses and whose contract read succeeds *)
CheckedInputs ==
    {in \in ValidateInputs : IsDecimal(in[1].amount) /\ IsDecimal(in[1].nonce) /\ in[3]}

(* the checks of the validation algorithm, stated on the voucher, the      *)
(* on-chain record and the ledger                                           *)
ChannelMissing(v) == GetChannel(v.channelId).consumer = ZeroAddress
ForeignProvider(v) ==
    ToLowerCase(GetChannel(v.channelId).provider) # ToLowerCase(ProviderAddress)
FundsShort(v, required) == BigInt(v.amount) < TotalCharged(v.channelId) + required
OverDeposit(v) == BigInt(v.amount) > GetChannel(v.channelId).deposit
NonceStale(v) == HasLastVoucher(v.channelId) /\ BigInt(v.nonce) <= LastNonce(v.channelId)
SignedByConsumer(v) ==
    v.signature = Sign(GetChannel(v.channelId).consumer,
                       [name |-> "DrainChannel", version |-> "1", chainId |-> 137,
                        verifyingContract |-> DRAIN_ADDRESSES[137]],
                       [channelId |-> v.channelId, amount |-> BigInt(v.amount),
                        nonce |-> BigInt(v.nonce)])

MaxOf(S) == CHOOSE x \in S : \A y \in S : y <= x

----------------------------------------------------------------------------
(* C1: with requests processed one at a time and every storeVoucher        *)
(* preceded by a valid validateVoucher for the same cost, every channel    *)
(* record has totalCharged <= deposit.                                     *)
C1_TotalWithinDeposit ==
    \A c \in StoredChannels : ChannelRecord(c).totalCharged <= ChannelRecord(c).deposit

(* two commits have used the deposit up exactly *)
C1_Witness ==
    /\ channels["c1"] # NoRef
    /\ ChannelRecord("c1").totalCharged = ChannelRecord("c1").deposit
    /\ Cardinality(VouchersOf("c1")) >= 2
    /\ ChannelRecord("c1").deposit > 0

(* C2: with requests processed one at a time, the nonces stored for a      *)
(* channel strictly increase in storage order, and a voucher that passes   *)
(* the funds and deposit checks with a nonce <= the last voucher's nonce   *)
(* is rejected with invalid_nonce.                                         *)
C2_NoncesStrictlyIncrease ==
    /\ \A c \in ChannelIds : \A i, j \in VouchersOf(c) :
         i < j => vouchers[i].nonce < vouchers[j].nonce
    /\ \A in \in CheckedInputs :
         ( /\ ~ChannelMissing(in[1]) /\ ~ForeignProvider(in[1])
           /\ ~FundsShort(in[1], in[2]) /\ ~OverDeposit(in[1])
           /\ NonceStale(in[1]) )
         => ValidateVoucher(in[1], in[2], in[3]).error = "invalid_nonce"

(* two vouchers are stored and a replay has just been turned down *)
C2_Witness ==
    /\ Cardinality(VouchersOf("c1")) >= 2
    /\ response = "invalid_nonce"

(* C3: under every interleaving of requests on the non-streaming path,     *)
(* a channel's totalCharged never exceeds the largest amount among the     *)
(* vouchers stored for it.                                                 *)
C3_NoDoubleCharge ==
    \A c \in StoredChannels :
        VouchersOf(c) # {} =>
            ChannelRecord(c).totalCharged <= MaxOf({vouchers[i].amount : i \in VouchersOf(c)})

(* C4: under every interleaving of requests, no two vouchers stored for a  *)
(* channel have the same nonce.                                            *)
C4_NoDuplicateNonce ==
    \A c \in ChannelIds : \A i, j \in VouchersOf(c) :
        i # j => vouchers[i].nonce # vouchers[j].nonce

(* C5: on every request path a voucher is stored only by a request whose   *)
(* post-call validateVoucher, made with the actual cost, returned valid.   *)
C5_StoreOnlyAfterPostValidation ==
    [][Len(vouchers') > Len(vouchers) =>
         \E r \in Requests : reqs[r].pc = "validated" /\ reqs'[r].pc = "idle"]_vars

(* C6: validateVoucher returns valid only for a signature the on-chain     *)
(* consumer made over the voucher's own channelId, amount and nonce under  *)
(* the deployment's domain; any other signature gives invalid_signature    *)
(* when the earlier checks pass; no such voucher is kept or stored.        *)
C6_SignatureBinding ==
    /\ \A i \in 1 .. Len(vouchers) :
         SignedByConsumer([vouchers[i] EXCEPT !.amount = ToString(@), !.nonce = ToString(@)])
    /\ \A r \in InFlight : SignedByConsumer(reqs[r].voucher)
    /\ \A in \in CheckedInputs :
         LET res == ValidateVoucher(in[1], in[2], in[3])
         IN  /\ res.valid => SignedByConsumer(in[1])
             /\ ( /\ ~ChannelMissing(in[1]) /\ ~ForeignProvider(in[1])
                  /\ ~FundsShort(in[1], in[2]) /\ ~OverDeposit(in[1])
                  /\ ~NonceStale(in[1]) /\ ~SignedByConsumer(in[1]) )
                => res.error = "invalid_signature"

(* a forged voucher has just been turned down on a channel in use *)
C6_Witness ==
    /\ response = "invalid_signature"
    /\ VouchersOf("c1") # {}

(* C7: no voucher above the channel's deposit is accepted or stored, and   *)
(* one that passes the funds check is rejected with exceeds_deposit.       *)
C7_NeverAboveDeposit ==
    /\ \A i \in 1 .. Len(vouchers) :
         vouchers[i].amount <= GetChannel(vouchers[i].channelId).deposit
    /\ \A r \in InFlight :
         BigInt(reqs[r].voucher.amount) <= GetChannel(reqs[r].voucher.channelId).deposit
    /\ \A in \in CheckedInputs :
         LET res == ValidateVoucher(in[1], in[2], in[3])
         IN  /\ OverDeposit(in[1]) => ~res.valid
             /\ ( /\ ~ChannelMissing(in[1]) /\ ~ForeignProvider(in[1])
                  /\ ~FundsShort(in[1], in[2]) /\ OverDeposit(in[1]) )
                => res.error = "exceeds_deposit"

(* a voucher above the deposit has just been turned down *)
C7_Witness ==
    /\ response = "exceeds_deposit"
    /\ Len(vouchers) >= 1

(* C8: validateVoucher returns the reason of the first failing check in    *)
(* the order channel_not_found, wrong_provider, insufficient_funds (with   *)
(* the current channel), exceeds_deposit, invalid_nonce,                   *)
(* invalid_signature, and valid with the channel and newTotal =            *)
(* voucher.amount exactly when no check fails.                             *)
FirstFailingCheck(v, required) ==
    LET failing ==
          <<ChannelMissing(v), ForeignProvider(v), FundsShort(v, required),
            OverDeposit(v), NonceStale(v), ~SignedByConsumer(v)>>
        reason ==
          <<"channel_not_found", "wrong_provider", "insufficient_funds",
            "exceeds_deposit", "invalid_nonce", "invalid_signature">>
    IN  IF \A k \in 1 .. 6 : ~failing[k]
        THEN "none"
        ELSE reason[CHOOSE k \in 1 .. 6 : failing[k] /\ \A j \in 1 .. k - 1 : ~failing[j]]

C8_FirstFailingCheckDecides ==
    \A in \in CheckedInputs :
        LET v == in[1]
            res == ValidateVoucher(v, in[2], in[3])
            expected == FirstFailingCheck(v, in[2])
        IN  /\ res.error = expected
            /\ res.valid <=> expected = "none"
            /\ res.valid =>
                 /\ res.newTotal = BigInt(v.amount)
                 /\ res.channel.ref = channels[v.channelId]
                 /\ res.channel.state.channelId = v.channelId
                 /\ res.channel.state.totalCharged = TotalCharged(v.channelId)
                 /\ res.channel.state.deposit = GetChannel(v.channelId).deposit
            /\ expected = "insufficient_funds" =>
                 /\ res.channel.ref = channels[v.channelId]
                 /\ res.channel.state.totalCharged = TotalCharged(v.channelId)

(* a voucher has been accepted and committed, another is in flight, and a  *)
(* third has just been turned down for lack of funds                       *)
C8_Witness ==
    /\ Len(vouchers) >= 1
    /\ InFlight # {}
    /\ response = "insufficient_funds"

(* C9: with requests processed one at a time, the amounts stored for a     *)
(* channel never decrease in storage order.                                *)
C9_AmountsNonDecreasing ==
    \A c \in ChannelIds : \A i, j \in VouchersOf(c) :
        i < j => vouchers[i].amount <= vouchers[j].amount

(* C10: when the post-call validateVoucher returns invalid, the request    *)
(* ends with a payment error and the ledger is unchanged: no voucher is    *)
(* recorded, totalCharged and lastVoucher keep their values.               *)
LedgerKept ==
    /\ vouchers' = vouchers
    /\ channels' = channels
    /\ \A c \in StoredChannels :
         /\ heap'[channels'[c]].totalCharged = ChannelRecord(c).totalCharged
         /\ heap'[channels'[c]].lastVoucher = ChannelRecord(c).lastVoucher
    /\ disk' = disk

C10_PostFailureCommitsNothing ==
    [][\A r \in Requests :
         reqs[r].pc = "completion" =>
           /\ reqs'[r].pc = "validated" =>
                \E readOk \in BOOLEAN :
                    ValidateVoucher(reqs[r].voucher, reqs'[r].cost, readOk).valid
           /\ reqs'[r].pc = "idle" =>
                /\ response' \in {"insufficient_funds_post", "api_error"}
                /\ LedgerKept]_vars

(* a request has just ended with the post-call payment error on a channel  *)
(* that already holds a committed voucher                                  *)
C10_Witness ==
    /\ response = "insufficient_funds_post"
    /\ channels["c1"] # NoRef
    /\ ChannelRecord("c1").lastVoucher # 0

----------------------------------------------------------------------------
(* Vocabulary of the claim properties *)

UnclaimedOf(c) == {i \in VouchersOf(c) : ~vouchers[i].claimed}
ChannelsToClaim == {c \in ChannelIds : UnclaimedOf(c) # {}}
HighestUnclaimedAmount(c) == MaxOf({vouchers[i].amount : i \in UnclaimedOf(c)})

(* the hashes among what the chain answered *)
Successes(outcomes) == SelectSeq(outcomes, LAMBDA o : o # "failed")

(* the entries of its snapshot a run has decided on: all of them once it    *)
(* has returned, those up to the one it is waiting for otherwise            *)
Decided(job) == IF job.pc = "returned" THEN Len(job.highest) ELSE job.i

(* of the entries a run has decided on, it has called claim for exactly     *)
(* those that are Due, in order, with the entry's own voucher               *)
CallsExactly(job, Due(_)) ==
    LET due == SelectSeq(SubSeq(job.highest, 1, Decided(job)), Due)
    IN  job.calls = [k \in 1 .. Len(due) |-> ClaimArgs(vouchers[due[k]])]

(* a run started now takes one entry per channel with an unclaimed voucher, *)
(* carrying the largest unclaimed amount of the channel                     *)
SnapshotIsHighest(job) ==
    /\ \A c \in ChannelIds :
         Cardinality({k \in 1 .. Len(job.highest) : vouchers[job.highest[k]].channelId = c})
           = IF c \in ChannelsToClaim THEN 1 ELSE 0
    /\ \A k \in 1 .. Len(job.highest) :
         LET v == vouchers[job.highest[k]]
         IN  ~v.claimed /\ v.amount = HighestUnclaimedAmount(v.channelId)

(* every point a run can be at in the current state: a run just called, a   *)
(* run in progress, a run in progress after its pending call is answered    *)
RunPoints(kind) ==
    {Continue(NewJob(kind, f, b), 1) : <<f, b>> \in BOOLEAN \X Buffers}
    \cup {jobs[j] : j \in {x \in Claiming : jobs[x].kind = kind}}
    \cup {AfterFailure(jobs[j]) : j \in {x \in Claiming : jobs[x].kind = kind}}
    \cup UNION {{AfterSuccess(jobs[j], h) : h \in TxHashes} :
                 j \in {x \in Claiming : jobs[x].kind = kind}}

----------------------------------------------------------------------------
(* what a run has after the step of its slot j: its state, or what it      *)
(* returned                                                                 *)
OutcomesAfter(j) == IF jobs'[j].pc = "idle" THEN returned'.outcomes ELSE jobs'[j].outcomes

(* the eight reasons of the error taxonomy *)
Taxonomy ==
    {"invalid_voucher_format", "channel_not_found", "wrong_provider",
     "insufficient_funds", "exceeds_deposit", "invalid_nonce",
     "invalid_signature", "validation_error"}

(* C21: every failure of validateVoucher is answered with one of the eight  *)
(* taxonomy reasons, a failing chain read or library call with              *)
(* validation_error.                                                        *)
C21_ErrorsAreInTheTaxonomy ==
    \A in \in ValidateInputs :
        LET validation == ValidateVoucher(in[1], in[2], in[3])
        IN  ~validation.valid =>
                /\ validation.error \in Taxonomy
                /\ ~in[3] => validation.error = "validation_error"

(* JSON with exactly the four fields, amount and nonce integers *)
WellFormed(header) ==
    /\ header.json
    /\ DOMAIN header.object = {"channelId", "amount", "nonce", "signature"}
    /\ \A f \in {"amount", "nonce"} :
         \/ header.object[f].type = "number"
         \/ header.object[f].type = "string" /\ IsDecimal(header.object[f].value)

(* C22: a header the parser accepts is JSON with exactly the four fields    *)
(* and integer amount and nonce; any other header is answered with          *)
(* invalid_voucher_format.                                                  *)
C22_OnlyWellFormedHeadersPass ==
    parse.called =>
        /\ parse.voucher # Null => WellFormed(parse.header)
        /\ ~WellFormed(parse.header) => response = "invalid_voucher_format"

(* C23: saving the ledger and loading it again gives the same voucher list  *)
(* (order, amounts, nonces, claimed flags, claim transaction ids) and the   *)
(* same channel records (deposit, totalCharged, expiry, lastVoucher).       *)
C23_SaveLoadRoundTrip ==
    Load(Save(vouchers, channels, heap, totalEarned))
        = LedgerOf(vouchers, channels, heap, totalEarned)

(* a ledger with a claimed and an unclaimed voucher of odd amount and a     *)
(* channel that has been charged                                            *)
C23_Witness ==
    /\ \E i, j \in 1 .. Len(vouchers) :
         /\ vouchers[i].claimed /\ vouchers[i].claimTxHash \in TxHashes
         /\ ~vouchers[j].claimed /\ vouchers[j].amount % 2 = 1
    /\ \E c \in ChannelIds :
         /\ channels[c] # NoRef
         /\ heap[channels[c]].totalCharged > 0
         /\ heap[channels[c]].lastVoucher # 0
    /\ disk = Save(vouchers, channels, heap, totalEarned)

(* the claim call run j is waiting for *)
PendingCall(j) == jobs[j].calls[Len(jobs[j].calls)]

(* the claim call of run j returns a transaction id in this step *)
CallReturnsTx(j) ==
    /\ jobs[j].pc = "claiming"
    /\ \E hash \in TxHashes : OutcomesAfter(j) = Append(jobs[j].outcomes, hash)

(* C24: a voucher is marked claimed only by a claim call for its channel    *)
(* whose submitted amount is >= the voucher's amount, also when the voucher *)
(* was stored while that call was in flight.                                *)
C24_MarkedOnlyIfCovered ==
    [][\A i \in 1 .. Len(vouchers) :
         (~vouchers[i].claimed /\ vouchers'[i].claimed) =>
             \E j \in Jobs :
                 /\ CallReturnsTx(j)
                 /\ PendingCall(j).channelId = vouchers[i].channelId
                 /\ PendingCall(j).amount >= vouchers[i].amount]_vars

(* everything scheduled up to the present instant has been done: no timer  *)
(* is due, no claim call and no request is in flight                        *)
Quiet ==
    /\ \A t \in ActiveTimers : timers[t].elapsed < timers[t].interval
    /\ Claiming = {}
    /\ NoneInFlight

(* C11: with auto-claim started (interval shorter than the buffer) and      *)
(* every claim call succeeding, no channel is at or past its expiry with an *)
(* unclaimed voucher of positive amount.                                    *)
C11_ClaimedBeforeExpiry ==
    (autoClaimInterval # NoTimer /\ Quiet) =>
        \A c \in ChannelIds :
            now >= GetChannel(c).expiry =>
                \A i \in UnclaimedOf(c) : vouchers[i].amount <= 0

C14_FailureDoesNotStopTheBatch ==
    /\ [](\A j \in Claiming : \A hash \in TxHashes :
            LET failed == AfterFailure(jobs[j])
                succeeded == AfterSuccess(jobs[j], hash)
            IN  /\ failed.pc = succeeded.pc
                /\ failed.i = succeeded.i
                /\ failed.calls = succeeded.calls
                /\ failed.txHashes = jobs[j].txHashes
                /\ succeeded.txHashes = Append(jobs[j].txHashes, hash))
    /\ [](/\ returned.txHashes = Successes(returned.outcomes)
          /\ \A j \in Claiming : jobs[j].txHashes = Successes(jobs[j].outcomes))
    /\ [][\A j \in Claiming :
             OutcomesAfter(j) = Append(jobs[j].outcomes, "failed")
                 => vouchers' = vouchers /\ disk' = disk]_vars

(* a run of two claims has returned: the first failed and its channel's     *)
(* vouchers are unclaimed, the second succeeded                             *)
C14_Witness ==
    /\ Len(returned.outcomes) = 2
    /\ returned.outcomes[1] = "failed"
    /\ returned.txHashes = <<returned.outcomes[2]>>
    /\ \E c \in ChannelIds : UnclaimedOf(c) # {}
    /\ \E i \in 1 .. Len(vouchers) : vouchers[i].claimed

(* C13: claimPayments(forceAll = false) calls claim for exactly the         *)
(* channels whose highest unclaimed voucher amount is >= the claim          *)
(* threshold, claimPayments(forceAll = true) for every channel with an      *)
(* unclaimed voucher, each call with the channelId, amount, nonce and       *)
(* signature of the channel's highest unclaimed voucher.                    *)
C13_ClaimPaymentsSelection ==
    /\ \A f \in BOOLEAN : SnapshotIsHighest(NewJob("claimPayments", f, 0))
    /\ \A job \in RunPoints("claimPayments") :
         CallsExactly(job, LAMBDA i : job.forceAll \/ vouchers[i].amount >= ClaimThreshold)

(* an unforced run has passed over a channel below the threshold and is     *)
(* claiming the next one                                                    *)
C13_Witness ==
    \E j \in Claiming :
        /\ jobs[j].kind = "claimPayments" /\ ~jobs[j].forceAll
        /\ Len(jobs[j].highest) = 2 /\ jobs[j].i = 2
        /\ Len(jobs[j].calls) = 1
        /\ jobs[j].calls[1].amount >= ClaimThreshold

(* C15: no step other than stopAutoClaim cancels the timer, a failed claim  *)
(* call among them; and with auto-claim running, every unclaimed voucher of *)
(* positive amount is eventually marked claimed, however often its         *)
(* channel's claim call failed before the chain accepts it.                 *)
C15_RetriedUntilClaimed ==
    /\ [][autoClaimInterval # NoTimer =>
             /\ autoClaimInterval' = autoClaimInterval
             /\ timers'[autoClaimInterval].active]_vars
    /\ \A i \in 1 .. MaxVouchers :
         (/\ autoClaimInterval # NoTimer
          /\ i <= Len(vouchers)
          /\ vouchers[i].amount > 0
          /\ ~vouchers[i].claimed)
            ~> (i <= Len(vouchers) /\ vouchers[i].claimed)

(* the last claimExpiring run's only claim call failed, and the next run,   *)
(* started by the timer, is making the call again for the same voucher      *)
C15_Witness ==
    /\ returned.outcomes = <<"failed">>
    /\ Len(vouchers) = 1
    /\ autoClaimInterval # NoTimer
    /\ \E j \in Claiming : jobs[j].kind = "claimExpiring"

(* C16: a stored voucher's claimed flag changes only from false to true,    *)
(* in the step in which a claim call for its channel returns a transaction  *)
(* id, and a claimed voucher is never changed again, by whatever later step *)
(* (a later markClaimed with another transaction id included).              *)
C16_ClaimedOnceForGood ==
    [][/\ Len(vouchers') >= Len(vouchers)
       /\ \A i \in 1 .. Len(vouchers) :
            /\ vouchers[i].claimed => vouchers'[i] = vouchers[i]
            /\ (~vouchers[i].claimed /\ vouchers'[i] # vouchers[i]) =>
                 /\ vouchers'[i] = [vouchers[i] EXCEPT !.claimed = TRUE,
                                                       !.claimedAt = now,
                                                       !.claimTxHash = vouchers'[i].claimTxHash]
                 /\ vouchers'[i].claimTxHash \in TxHashes
                 /\ \E j \in Claiming :
                      /\ ClaimingFor(j) = vouchers[i].channelId
                      /\ LET after == IF jobs'[j].pc = "idle" THEN returned' ELSE jobs'[j]
                         IN  after.outcomes = Append(jobs[j].outcomes, vouchers'[i].claimTxHash)
       /\ \A i \in Len(vouchers) + 1 .. Len(vouchers') : ~vouchers'[i].claimed]_vars

(* a claim call is in flight for a channel that already holds a claimed     *)
(* voucher beside an unclaimed one                                          *)
C16_Witness ==
    \E j \in Claiming :
        /\ \E i \in VouchersOf(ClaimingFor(j)) : vouchers[i].claimed
        /\ UnclaimedOf(ClaimingFor(j)) # {}

(* C17: getHighestVoucherPerChannel has exactly one entry for each channel  *)
(* with an unclaimed voucher, none for any other channel, and the entry's   *)
(* amount is the largest amount among the channel's unclaimed vouchers.     *)
C17_HighestPerChannel ==
    LET highest == GetHighestVoucherPerChannel(vouchers)
    IN  /\ \A c \in ChannelIds :
             Cardinality({k \in 1 .. Len(highest) : vouchers[highest[k]].channelId = c})
               = IF UnclaimedOf(c) # {} THEN 1 ELSE 0
        /\ \A k \in 1 .. Len(highest) :
             /\ highest[k] \in UnclaimedOf(vouchers[highest[k]].channelId)
             /\ \A i \in UnclaimedOf(vouchers[highest[k]].channelId) :
                  vouchers[i].amount <= vouchers[highest[k]].amount

(* two channels have entries, and one of them holds a claimed voucher       *)
(* larger than its unclaimed ones and two unclaimed ones of different       *)
(* amounts                                                                  *)
C17_Witness ==
    /\ Len(GetHighestVoucherPerChannel(vouchers)) = 2
    /\ \E c \in ChannelIds :
         \/ \E i \in VouchersOf(c), j \in UnclaimedOf(c) :
              vouchers[i].claimed /\ vouchers[j].amount < vouchers[i].amount
         \/ \E i, j \in UnclaimedOf(c) : vouchers[i].amount < vouchers[j].amount

(* C18: when several unclaimed vouchers of a channel share the largest      *)
(* amount, getHighestVoucherPerChannel returns the one with the highest     *)
(* nonce.                                                                   *)
C18_TieGoesToHighestNonce ==
    LET highest == GetHighestVoucherPerChannel(vouchers)
    IN  \A k \in 1 .. Len(highest) :
            \A i \in UnclaimedOf(vouchers[highest[k]].channelId) :
                vouchers[i].amount = vouchers[highest[k]].amount
                    => vouchers[i].nonce <= vouchers[highest[k]].nonce

(* a claimExpiring run that exists after the step and not before *)
NewExpiringRun ==
    \E j \in Jobs :
        /\ jobs'[j].kind = "claimExpiring"
        /\ jobs[j].pc = "idle"
        /\ jobs'[j].pc = "claiming"

(* C20: at most one auto-claim timer is active and it is the one the handle *)
(* autoClaimInterval holds; startAutoClaim while a timer is active creates  *)
(* no timer, changes none, and starts no claimExpiring run (a run that      *)
(* starts while the timer stays set is the timer's own callback).           *)
C20_OneTimer ==
    /\ [](/\ Cardinality(ActiveTimers) <= 1
          /\ ActiveTimers = IF autoClaimInterval = NoTimer THEN {} ELSE {autoClaimInterval})
    /\ [][(autoClaimInterval # NoTimer /\ autoClaimInterval' # NoTimer) =>
             /\ autoClaimInterval' = autoClaimInterval
             /\ \A t \in TimerIds :
                  /\ timers'[t].active = timers[t].active
                  /\ timers'[t].interval = timers[t].interval
                  /\ timers'[t].bufferSeconds = timers[t].bufferSeconds
             /\ NewExpiringRun =>
                  /\ timers[autoClaimInterval].elapsed = timers[autoClaimInterval].interval
                  /\ timers'[autoClaimInterval].elapsed = 0]_vars

(* a timer is active, was started with the larger buffer, and a run has     *)
(* returned since                                                           *)
C20_Witness ==
    /\ autoClaimInterval # NoTimer
    /\ timers[autoClaimInterval].bufferSeconds = 2
    /\ Claiming = {}
    /\ returned.outcomes # <<>>

----------------------------------------------------------------------------
(* The ledger under commits *)

(* C26: the totalCharged the ledger records for a channel never decreases, *)
(* under overlapping requests on the channel and on the first commits of a *)
(* channel that had no record.                                             *)
C26_TotalChargedNeverDecreases ==
    [][\A c \in StoredChannels :
         /\ channels'[c] # NoRef
         /\ heap'[channels'[c]].totalCharged >= ChannelRecord(c).totalCharged]_vars

(* the requests whose next step is storeVoucher *)
Committing == {r \in Requests : reqs[r].pc \in {"streaming", "validated"}}

(* C27: at every point of a commit at which the process may stop, the file *)
(* holds either both the new voucher record and the channel record updated *)
(* for it, or neither: the snapshot written by storage.storeVoucher, which *)
(* holds the new voucher, already holds the channel record the commit ends *)
(* with.                                                                   *)
C27_CommitIsAtomicOnDisk ==
    \A r \in Committing :
        \A cost \in (IF reqs[r].pc = "streaming" THEN Costs ELSE {reqs[r].cost}) :
            LET c == reqs[r].voucher.channelId
                first == VoucherStored(Memory, reqs[r].voucher, reqs[r].channelState, cost).disk
                done == StoreVoucher(Memory, reqs[r].voucher, reqs[r].channelState, cost).disk
            IN  /\ Len(first.vouchers) = Len(vouchers) + 1
                /\ c \in DOMAIN first.channels
                /\ first.channels[c] = done.channels[c]

(* C28: every change of the in-memory ledger (the voucher list, any field  *)
(* of a stored channel record, a backfilled expiry included) is written to *)
(* the file before the operation that made it returns: whenever no         *)
(* operation is running, what the file holds is the ledger in memory.      *)
C28_FileEqualsMemory ==
    Load(disk) = LedgerOf(vouchers, channels, heap, totalEarned)

(* C29: validateVoucher, whatever it returns, changes no channel's         *)
(* totalCharged or lastVoucher, adds or alters no voucher record and adds  *)
(* no channel record: a step that neither stores a voucher nor belongs to  *)
(* a claim run keeps the ledger, and a channel gets its record in the step *)
(* in which storeVoucher commits a voucher of that channel.                *)
C29_ValidateKeepsTheLedger ==
    [][/\ (Len(vouchers') = Len(vouchers) /\ jobs' = jobs) => LedgerKept
       /\ \A c \in ChannelIds \ StoredChannels :
            channels'[c] # NoRef =>
                /\ vouchers' # vouchers
                /\ SubSeq(vouchers', 1, Len(vouchers)) = vouchers
                /\ Len(vouchers') = Len(vouchers) + 1
                /\ vouchers'[Len(vouchers')].channelId = c
                /\ heap'[channels'[c]].lastVoucher = Len(vouchers')]_vars

(* a validateVoucher call has just rejected a voucher of a channel with a  *)
(* committed voucher, after backfilling the expiry of its record           *)
C29_Witness ==
    /\ response \in {"invalid_nonce", "insufficient_funds"}
    /\ channels["c1"] # NoRef
    /\ ChannelRecord("c1").lastVoucher # 0
    /\ ChannelRecord("c1").expiry # 0
    /\ disk.exists /\ disk.channels["c1"].expiry = 0

(* C30: storeVoucher(voucher, channel, cost) raises that channel's         *)
(* totalCharged by exactly cost, makes the new voucher its lastVoucher and *)
(* the channel's record, appends exactly one voucher record with claimed   *)
(* false, and leaves the channel's deposit, consumer and expiry, every     *)
(* other channel record and every voucher stored before unchanged.         *)
C30_StoreVoucherEffect ==
    \A r \in Committing :
        \A cost \in (IF reqs[r].pc = "streaming" THEN Costs ELSE {reqs[r].cost}) :
            LET voucher == reqs[r].voucher
                channel == reqs[r].channelState
                m == StoreVoucher(Memory, voucher, channel, cost)
                n == Len(vouchers) + 1
            IN  /\ m.heap[channel].totalCharged = heap[channel].totalCharged + cost
                /\ m.heap[channel].lastVoucher = n
                /\ m.channels[voucher.channelId] = channel
                /\ Len(m.vouchers) = n
                /\ m.vouchers[n].channelId = voucher.channelId
                /\ m.vouchers[n].amount = BigInt(voucher.amount)
                /\ m.vouchers[n].nonce = BigInt(voucher.nonce)
                /\ m.vouchers[n].signature = voucher.signature
                /\ m.vouchers[n].claimed = FALSE
                /\ SubSeq(m.vouchers, 1, n - 1) = vouchers
                /\ m.heap[channel].deposit = heap[channel].deposit
                /\ m.heap[channel].consumer = heap[channel].consumer
                /\ m.heap[channel].expiry = heap[channel].expiry
                /\ \A d \in StoredChannels \ {voucher.channelId} :
                     /\ m.channels[d] = channels[d]
                     /\ m.heap[channels[d]] = heap[channels[d]]
                /\ m.disk = Save(m.vouchers, m.channels, m.heap, m.totalEarned)

(* a request is about to commit a cost above 0 on a channel that has a     *)
(* record and a committed voucher, while another channel has a record and  *)
(* a claimed voucher is in the list                                        *)
C30_Witness ==
    \E r \in Committing :
        /\ reqs[r].pc = "validated"
        /\ reqs[r].cost > 0
        /\ reqs[r].voucher.channelId = "c1"
        /\ channels["c1"] = reqs[r].channelState
        /\ ChannelRecord("c1").lastVoucher # 0
        /\ channels["c2"] # NoRef
        /\ \E i \in 1 .. Len(vouchers) : vouchers[i].claimed

(* C25: for each stored voucher at most one claim call that returns a      *)
(* transaction id is made, also when runs of claimPayments and             *)
(* claimExpiring overlap: when a claim call returns a transaction id, the  *)
(* voucher it was made for has not been claimed by an earlier call.        *)
C25_OneSuccessfulClaimPerVoucher ==
    [][\A j \in Jobs :
         CallReturnsTx(j) => ~vouchers[jobs[j].highest[jobs[j].i]].claimed]_vars

----------------------------------------------------------------------------
(* Frames and independence *)

(* C32: markClaimed(channelId, txHash) sets claimed and records txHash on  *)
(* every unclaimed voucher of the channel, the highest and the superseded  *)
(* ones; afterwards getHighestVoucherPerChannel has no entry for the       *)
(* channel; vouchers of other channels are unchanged.                      *)
C32_MarkClaimedMarksTheChannel ==
    \A c \in ChannelIds, txHash \in TxHashes :
        LET vs == StorageMarkClaimed(Memory, c, txHash, now).vouchers
            highest == GetHighestVoucherPerChannel(vs)
        IN  /\ Len(vs) = Len(vouchers)
            /\ \A i \in UnclaimedOf(c) :
                 vs[i] = [vouchers[i] EXCEPT !.claimed = TRUE, !.claimedAt = now,
                                             !.claimTxHash = txHash]
            /\ \A i \in 1 .. Len(vouchers) :
                 vouchers[i].channelId # c => vs[i] = vouchers[i]
            /\ \A k \in 1 .. Len(highest) : vs[highest[k]].channelId # c

(* a claim has marked two vouchers of different amounts of one channel     *)
(* with its transaction id while another channel's voucher stays unclaimed *)
C32_Witness ==
    \E c, d \in ChannelIds :
        /\ c # d
        /\ UnclaimedOf(d) # {}
        /\ UnclaimedOf(c) = {}
        /\ \E i, j \in VouchersOf(c) :
             /\ vouchers[i].amount < vouchers[j].amount
             /\ vouchers[i].claimTxHash = vouchers[j].claimTxHash
             /\ vouchers[i].claimed /\ vouchers[j].claimed

(* C35: once a channel has a record in the ledger, the record's deposit    *)
(* and consumer never change, and its expiry never changes once it is not  *)
(* zero (a missing expiry may be filled in from the on-chain read).        *)
C35_RecordFieldsAreStable ==
    [][\A c \in StoredChannels :
         /\ channels'[c] # NoRef
         /\ heap'[channels'[c]].deposit = ChannelRecord(c).deposit
         /\ heap'[channels'[c]].consumer = ChannelRecord(c).consumer
         /\ ChannelRecord(c).expiry # 0 =>
                heap'[channels'[c]].expiry = ChannelRecord(c).expiry]_vars

(* a request is on its way on a channel whose record had its expiry filled *)
(* in by the request's validation and was charged before                   *)
C35_Witness ==
    \E r \in Requests :
        /\ reqs[r].pc # "idle"
        /\ channels["c1"] = reqs[r].channelState
        /\ ChannelRecord("c1").expiry # 0
        /\ ChannelRecord("c1").lastVoucher # 0
        /\ disk.exists /\ disk.channels["c1"].expiry = 0

(* C36: when the backend call of a request fails after a valid             *)
(* pre-validation, nothing is committed: no voucher is recorded, the       *)
(* channel's totalCharged and lastVoucher are as before, and the same      *)
(* voucher, with its nonce, is accepted by a validateVoucher made          *)
(* afterwards.                                                             *)
C36_BackendFailureCommitsNothing ==
    [][\A r \in Requests :
         (reqs[r].pc \in {"streaming", "completion"} /\ reqs'[r].pc = "idle"
            /\ response' = "api_error") =>
             /\ LedgerKept
             /\ \A voucher \in {reqs[r].voucher} :
                  ValidateVoucher(voucher, 0, TRUE)'.valid]_vars

(* the backend call of a request on a channel with a committed voucher has *)
(* just failed                                                             *)
C36_Witness ==
    /\ response = "api_error"
    /\ channels["c1"] # NoRef
    /\ ChannelRecord("c1").lastVoucher # 0
    /\ NoneInFlight

(* C37: with requests processed one at a time, a channel has a record in   *)
(* the ledger exactly when at least one voucher is stored for it, and the  *)
(* record's lastVoucher is the channel's most recently stored voucher,     *)
(* whose nonce is the largest nonce stored for the channel.                *)
C37_RecordsMatchVouchers ==
    \A c \in ChannelIds :
        /\ channels[c] # NoRef <=> VouchersOf(c) # {}
        /\ channels[c] # NoRef =>
             /\ ChannelRecord(c).lastVoucher = MaxOf(VouchersOf(c))
             /\ \A i \in VouchersOf(c) : vouchers[i].nonce <= LastNonce(c)

(* two channels have records; one of them holds two vouchers of different  *)
(* nonces, the other has none of the first one's vouchers                  *)
C37_Witness ==
    /\ NoneInFlight
    /\ channels["c2"] # NoRef
    /\ \E i, j \in VouchersOf("c1") : vouchers[i].nonce < vouchers[j].nonce
    /\ channels["cW"] = NoRef

(* C38: what validateVoucher returns does not depend on the channel's      *)
(* expiry or on the current time: when time passes, also past a channel's  *)
(* expiry, every validation returns what it returned before, so a voucher  *)
(* of an expired channel is accepted whenever it was for the live one.     *)
C38_ValidationIgnoresExpiry ==
    [][now' # now =>
         \A in \in ValidateInputs \cup AutoInputs :
             ValidateVoucher(in[1], in[2], in[3])' = ValidateVoucher(in[1], in[2], in[3])]_vars

(* a channel with a committed voucher is past its expiry and a further     *)
(* voucher for it is accepted                                              *)
C38_Witness ==
    \E in \in AutoInputs :
        /\ GetChannel(in[1].channelId).expiry <= now
        /\ channels[in[1].channelId] # NoRef
        /\ ValidateVoucher(in[1], in[2], in[3]).valid

(* C33: after a committed request the reported total (X-DRAIN-Total) is    *)
(* the channel's totalCharged after the commit, the previous total plus    *)
(* the request's cost, and the reported remaining deposit                  *)
(* (X-DRAIN-Remaining) is the deposit minus that total.                    *)
C33_ReportedTotalIsTheTotal ==
    \A r \in Committing :
        \A cost \in (IF reqs[r].pc = "streaming" THEN Costs ELSE {reqs[r].cost}) :
            LET channelState == reqs[r].channelState
                m == StoreVoucher(Memory, reqs[r].voucher, channelState, cost)
                headers == ResponseHeaders(m, channelState, cost)
            IN  /\ headers.total = m.heap[channelState].totalCharged
                /\ headers.total = heap[channelState].totalCharged + cost
                /\ headers.remaining = m.heap[channelState].deposit - headers.total

----------------------------------------------------------------------------
(* The scheduler *)

(* C34: startAutoClaim on a stopped scheduler sets one timer and runs      *)
(* claimExpiring once at once; the timer's run begins each time the        *)
(* interval has elapsed, and time does not pass a due timer; while the     *)
(* scheduler is stopped no timer is set and no claimExpiring run begins;   *)
(* stopAutoClaim on a stopped scheduler changes nothing.                   *)
C34_StartRunsStopCancels ==
    /\ [](autoClaimInterval = NoTimer => ~ENABLED (StopAutoClaim /\ vars' # vars))
    /\ [][/\ (autoClaimInterval = NoTimer /\ autoClaimInterval' # NoTimer) =>
              \E bufferSeconds \in Buffers :
                  /\ timers'[autoClaimInterval'].active
                  /\ timers'[autoClaimInterval'].bufferSeconds = bufferSeconds
                  /\ timers'[autoClaimInterval'].elapsed = 0
                  /\ StartRun(NewJob("claimExpiring", FALSE, bufferSeconds))
          /\ \A t \in ActiveTimers :
              /\ timers[t].elapsed <= timers[t].interval
              /\ now' # now => timers[t].elapsed < timers[t].interval
              /\ (timers'[t].active /\ timers'[t].elapsed < timers[t].elapsed) =>
                    /\ timers[t].elapsed = timers[t].interval
                    /\ timers'[t].elapsed = 0
                    /\ StartRun(NewJob("claimExpiring", FALSE, timers[t].bufferSeconds))
          /\ (autoClaimInterval = NoTimer /\ autoClaimInterval' = NoTimer) =>
              /\ ActiveTimers = {}
              /\ \A t \in TimerIds : ~timers'[t].active
              /\ ~NewExpiringRun]_vars

(* the scheduler was started, a claimExpiring run of it claimed a voucher   *)
(* after time had passed, and it has been stopped since: no timer is set   *)
(* while a voucher waits unclaimed                                         *)
C34_Witness ==
    /\ autoClaimInterval = NoTimer
    /\ now >= 2
    /\ \E i \in 1 .. Len(vouchers) : vouchers[i].claimed /\ vouchers[i].claimedAt >= 1
    /\ \E i \in 1 .. Len(vouchers) : ~vouchers[i].claimed

----------------------------------------------------------------------------
(* The ledger at start *)

(* C39: when the persisted document exists and cannot be parsed (not JSON, *)
(* or a voucher or channel record whose amount, nonce, deposit or          *)
(* totalCharged does not convert), the ledger starts with no vouchers and  *)
(* no channels; load never returns a part of the persisted records.        *)
C39_LoadIsAllOrNothing ==
    /\ \A doc \in Documents :
         LET data == Load(doc)
         IN  /\ (doc.exists /\ LoadThrows(doc)) => data = EmptyData
             /\ \/ data.vouchers = <<>> /\ DOMAIN data.channels = {}
                \/ /\ Len(data.vouchers) = Len(doc.vouchers)
                   /\ DOMAIN data.channels = DOMAIN doc.channels
    /\ (disk.exists /\ LoadThrows(disk)) => vouchers = <<>> /\ StoredChannels = {}

(* the process started on a document with two vouchers of which one field  *)
(* does not convert, holds an empty ledger and has answered a request      *)
C39_Witness ==
    /\ disk.exists
    /\ "vouchers" \in DOMAIN disk
    /\ LoadThrows(disk)
    /\ Len(disk.vouchers) = 2
    /\ vouchers = <<>>
    /\ response # "none"

(* C40: the totalEarned that getStats reports is not changed by            *)
(* storeVoucher, updateChannel or markClaimed: it is the value that was    *)
(* loaded, which the file keeps, and 0 for a ledger that started without a *)
(* file.                                                                   *)
C40_TotalEarnedStays ==
    /\ [](GetStats(Memory).totalEarned = BigInt(Load(disk).totalEarned))
    /\ [](~disk.exists => GetStats(Memory).totalEarned = 0)
    /\ [](\A c \in StoredChannels :
            /\ GetStats(StorageUpdateChannel(Memory, c, channels[c])).totalEarned
                  = GetStats(Memory).totalEarned
            /\ \A txHash \in TxHashes :
                  GetStats(StorageMarkClaimed(Memory, c, txHash, now)).totalEarned
                    = GetStats(Memory).totalEarned)
    /\ [][GetStats(Memory).totalEarned' = GetStats(Memory).totalEarned]_vars

(* a ledger loaded with one voucher and a totalEarned of 2 has stored a    *)
(* second voucher at no cost and claimed, and getStats still reports 2     *)
C40_Witness ==
    /\ GetStats(Memory).totalEarned = 2
    /\ GetStats(Memory).totalVouchers = 2
    /\ GetStats(Memory).unclaimedVouchers < 2
    /\ heap[channels["c1"]].totalCharged = 0

----------------------------------------------------------------------------
(* Channels are independent *)

(* what ledger m holds for channel c: its record and its vouchers, in order *)
ChannelView(m, c) ==
    LET ledger == LedgerOf(m.vouchers, m.channels, m.heap, m.totalEarned)
        ofChannel(v) == v.channelId = c
    IN  [record |-> IF c \in DOMAIN ledger.channels THEN ledger.channels[c] ELSE NoObj,
         vouchers |-> SelectSeq(m.vouchers, ofChannel)]

(* ledger m had only the operations on channel c run: the other channels'  *)
(* vouchers, records and objects are not there                             *)
AloneMemory(m, c) ==
    LET ofChannel(v) == v.channelId = c
        vs == SelectSeq(m.vouchers, ofChannel)
        chs == [d \in ChannelIds |-> IF d = c THEN m.channels[d] ELSE NoRef]
        hp == [o \in ObjIds |->
                 IF m.heap[o] # NoObj /\ m.heap[o].channelId = c
                 THEN [m.heap[o] EXCEPT !.lastVoucher =
                         Cardinality({k \in 1 .. @ : m.vouchers[k].channelId = c})]
                 ELSE NoObj]
    IN  [vouchers |-> vs, channels |-> chs, heap |-> hp,
         disk |-> Save(vs, chs, hp, m.totalEarned), totalEarned |-> m.totalEarned]

(* C31: requests and claims on distinct channels are independent.  In      *)
(* every reachable ledger, storeVoucher and markClaimed on a channel leave *)
(* that channel with the record and vouchers they produce on the ledger    *)
(* that holds this channel alone, and leave every other channel's record   *)
(* and vouchers as they are; validateVoucher changes no other channel's    *)
(* record; a step changes a channel's record or vouchers only when it is   *)
(* a validation, a commit or a successful claim of that channel; and the   *)
(* result of validating a channel's voucher changes only when that         *)
(* channel's record or vouchers change.                                    *)
C31_ChannelsAreIndependent ==
    /\ [](\A r \in Committing : \A actualCost \in Costs :
            LET c == reqs[r].voucher.channelId
                stored == StoreVoucher(Memory, reqs[r].voucher,
                                       reqs[r].channelState, actualCost)
                alone == StoreVoucher(AloneMemory(Memory, c), reqs[r].voucher,
                                      reqs[r].channelState, actualCost)
            IN  /\ ChannelView(stored, c) = ChannelView(alone, c)
                /\ \A d \in ChannelIds \ {c} :
                      ChannelView(stored, d) = ChannelView(Memory, d))
    /\ [](\A c \in ChannelIds, txHash \in TxHashes :
            LET marked == StorageMarkClaimed(Memory, c, txHash, now)
                alone == StorageMarkClaimed(AloneMemory(Memory, c), c, txHash, now)
            IN  /\ ChannelView(marked, c) = ChannelView(alone, c)
                /\ \A d \in ChannelIds \ {c} :
                      ChannelView(marked, d) = ChannelView(Memory, d))
    /\ [](\A r \in Requests : \A in \in OwnInputs[r] :
            LET validated == [Memory EXCEPT !.heap = HeapAfterValidate(in[1], in[3])]
            IN  \A d \in ChannelIds \ {in[1].channelId} :
                   ChannelView(validated, d) = ChannelView(Memory, d))
    /\ [][\A c \in ChannelIds :
            ChannelView(Memory, c)' # ChannelView(Memory, c) =>
               \/ \E r \in Committing :
                     reqs[r].voucher.channelId = c /\ reqs'[r].pc = "idle"
               \/ \E j \in Claiming : ClaimingFor(j) = c /\ jobs'[j] # jobs[j]
               \/ \E r \in Requests : \E in \in OwnInputs[r] :
                     /\ in[1].channelId = c
                     /\ reqs[r].pc = "idle"
                     /\ ChannelView(Memory, c)' =
                          ChannelView([Memory EXCEPT
                                         !.heap = HeapAfterValidate(in[1], in[3])], c)]_vars
    /\ [][\A r \in Requests : \A in \in OwnInputs[r] :
            LET validation == ValidateVoucher(in[1], in[2], in[3])
                outcome == <<validation.valid, validation.error, validation.newTotal>>
            IN  ChannelView(Memory, in[1].channelId)' = ChannelView(Memory, in[1].channelId)
                  => outcome' = outcome]_vars

(* a request on c1 is about to commit while a claim call for c2 is in      *)
(* flight, both channels have a record and c1 has a claimed voucher        *)
C31_Witness ==
    /\ \E r \in Committing : reqs[r].voucher.channelId = "c1"
    /\ \E j \in Claiming : ClaimingFor(j) = "c2"
    /\ channels["c1"] # NoRef
    /\ channels["c2"] # NoRef
    /\ \E i \in 1 .. Len(vouchers) : vouchers[i].channelId = "c1" /\ vouchers[i].claimed

====
